---- MODULE Spec2Model ----
(***************************************************************************)
(* Model of the class checks of cppcheck (lib/checkclass.h,                *)
(* lib/checkclass.cpp): the symbol database built by                       *)
(* CheckClass::createSymbolDatabase from the token list, the argument list *)
(* comparison CheckClass::argsMatch, the member variable list of           *)
(* CheckClass::getVarList, the constructor data flow of                    *)
(* CheckClass::initializeVarList and the checks that report diagnostics.   *)
(*                                                                         *)
(* A token list is a sequence of token strings; a token is its position    *)
(* 1..Len(tokens) and the null pointer is 0.                               *)
(***************************************************************************)
EXTENDS Integers, Sequences, FiniteSets, TLC

VARIABLES
    tokens,             \* Tokenizer::tokens(): the token strings, in order
    tokLink,            \* Token::link() of every token (0: no link)
    fileIndex,          \* Token::fileIndex() of every token (0: the source file)
    checkCodingStyle,   \* Settings::_checkCodingStyle
    inconclusive,       \* Settings::inconclusive
    ifcfg,              \* Settings::ifcfg
    hasSymbolDatabase,  \* CheckClass::hasSymbolDatabase
    spaceInfo,          \* the SpaceInfo objects, in order of creation
    spaceInfoMMap,      \* CheckClass::spaceInfoMMap: SpaceInfo indices in key order
    errors,             \* what ErrorLogger::reportError received from lastOp, in order
    aborted,            \* the run ended in a null pointer dereference
    declared,           \* history: <<scope, tokenDef>> of every declaration the
                        \* builder recognised as a function, in order
    lastOp,             \* the operation of CheckClass invoked last
    dbCalls,            \* invocations of createSymbolDatabase so far
    analysis,           \* initializeVarList: the varlist and the callstack it
                        \* returned with, and the log of its calls
    heap,               \* the SpaceInfo and Var objects that "new" made and
                        \* "delete" has not released, and whether one was
                        \* released twice
    amParams,           \* argsMatch: the parameters the two lists are written from
    amFirst, amSecond,  \* argsMatch: its two token arguments
    amPath, amDepth,    \* argsMatch: its path and depth arguments
    amResult            \* argsMatch: "none" before the call, then TRUE/FALSE

vars == <<tokens, tokLink, fileIndex, checkCodingStyle, inconclusive, ifcfg, hasSymbolDatabase, spaceInfo,
          spaceInfoMMap, errors, aborted, declared, lastOp, dbCalls, heap, analysis,
          amParams, amFirst, amSecond, amPath, amDepth, amResult>>

-----------------------------------------------------------------------------
(* Bounds of the model *)

\* invocations of createSymbolDatabase on one CheckClass instance
MaxDbCalls == 2
\* member declarations in a generated class body
MaxMembers == 2
\* parameters in a generated argument list
MaxParams == 2

-----------------------------------------------------------------------------
(* Tokens (lib/token.h).  Token::isName() is true of a token that starts   *)
(* with a letter or an underscore: the identifiers, the keywords and the    *)
(* access labels of the simplified token list.                              *)

NULL == 0

AccessLabels == {"private:", "protected:", "public:"}

NameTokens ==
    {"class", "struct", "namespace", "union", "public", "protected", "private",
     "const", "static", "mutable", "virtual", "friend", "operator", "this",
     "return", "if", "delete", "new", "default", "memset", "void", "int", "char",
     "bool", "unsigned", "std", "string", "__property", "__published:",
     "A", "B", "C", "D", "N", "T", "a", "b", "f", "g", "h", "s", "t", "x", "y", "z",
     "init", "clear", "Clear", "free", "q", "m", "w", "c_str", "HDC", "memcpy", "memmove", "sizeof", "vector", "p", "v"}
    \cup AccessLabels

NumberTokens == {"0", "1", "5"}

\* tokens whose string contains a ':'
ColonTokens == {":", "::", "__published:"} \cup AccessLabels

isName(s) == s \in NameTokens

\* the names made of the letters 'A'..'Z' and '_' only
UpperCaseNames == {"A", "B", "C", "D", "N", "T", "HDC"}

\* the operator tokens with a '=' in them: those whose first '=' is their
\* second character, and those with one of the characters '<', '!', '>'
EqualsSecond == {"+=", "-=", "*=", "/=", "|=", "&=", "^=", "<=", ">=", "!="}

AngleOrBang == {"<=", ">=", "!=", "<<=", ">>=", "<<", ">>", "<", ">", "!"}

isNumber(s) == s \in NumberTokens

StandardTypes ==
    {"bool", "char", "short", "int", "long", "float", "double", "size_t", "__int64"}

str(tok) == (CHOOSE it \in {( IF t \in 1..Len(tokens) THEN tokens[t] ELSE "") : t \in {tok}} : TRUE)

next(tok) == (CHOOSE it \in {( IF t \in 1..(Len(tokens) - 1) THEN t + 1 ELSE NULL) : t \in {tok}} : TRUE)

previous(tok) == (CHOOSE it \in {( IF t \in 2..Len(tokens) THEN t - 1 ELSE NULL) : t \in {tok}} : TRUE)

tokAt(tok, n) ==
    (CHOOSE it \in {( IF t # NULL /\ (t + n) \in 1..Len(tokens) THEN t + n ELSE NULL) : t \in {tok}} : TRUE)

link(tok) == (CHOOSE it \in {( IF t \in 1..Len(tokens) THEN tokLink[t] ELSE NULL) : t \in {tok}} : TRUE)

isStandardType(tok) == str(tok) \in StandardTypes

Opening == {"(", "{", "["}

Closing == {")", "}", "]"}

\* the first and the last token of a set of tokens, NULL if there is none
First(S) == (CHOOSE it \in {IF s = {} THEN NULL ELSE CHOOSE t \in s : \A u \in s : t <= u : s \in {S}} : TRUE)

Last(S) == (CHOOSE it \in {IF s = {} THEN NULL ELSE CHOOSE t \in s : \A u \in s : t >= u : s \in {S}} : TRUE)

\* are there as many opening as closing brackets from i to j
Balanced(toks, i, j) ==
    Cardinality({k \in i..j : toks[k] \in Opening})
        = Cardinality({k \in i..j : toks[k] \in Closing})

\* The bracket links the tokenizer sets: the partner of every (, {, [.
PartnerFwd(toks, i) == First({j \in i..Len(toks) : Balanced(toks, i, j)})

PartnerBwd(toks, i) == Last({j \in 1..i : Balanced(toks, j, i)})

Links(toks) ==
    [i \in 1..Len(toks) |->
        IF toks[i] \in Opening THEN PartnerFwd(toks, i)
        ELSE IF toks[i] \in Closing THEN PartnerBwd(toks, i)
        ELSE NULL]

\* every token comes from the source file itself, none from an included file
SourceFile(toks) == [t \in 1..Len(toks) |-> 0]

-----------------------------------------------------------------------------
(* Token::Match and Token::findmatch.  A pattern is a sequence of words; a  *)
(* word is the set of its alternatives, where "%var%", "%type%", "%any%"    *)
(* and "%num%" stand for the token classes, "" is the empty alternative of  *)
(* a word such as "const|", and a one-character class such as "[{:]" is the *)
(* set of its characters.                                                   *)

WordMatches(word, s) ==
    \/ s \in word
    \/ "%any%" \in word
    \/ "%var%" \in word /\ isName(s)
    \/ "%type%" \in word /\ isName(s) /\ s # "delete"
    \/ "%num%" \in word /\ isNumber(s)

\* the words of the pattern that may match no token
Optional(pattern) == {i \in 1..Len(pattern) : "" \in pattern[i]}

\* the token the i-th word is compared with when the words in skipped have
\* matched no token
WordToken(tok, i, skipped) == tok + Cardinality({j \in 1..(i - 1) : j \notin skipped})

\* Every word is compared with the token the cursor is at: a word that
\* matches takes the token, a word that does not is skipped if it may match
\* no token, and the match fails otherwise or when the tokens end.
Match(tok, pattern) ==
    \/ pattern = <<>>
    \/ /\ tok # NULL
       /\ \E skipped \in SUBSET Optional(pattern) :
             \A i \in 1..Len(pattern) :
                 \E t \in {WordToken(tok, i, skipped)} :
                     /\ t <= Len(tokens)
                     /\ WordMatches(pattern[i], tokens[t]) = (i \notin skipped)

\* a pattern of literal words
Lit(words) == [i \in 1..Len(words) |-> {words[i]}]

simpleMatch(tok, words) == Match(tok, Lit(words))

\* the first token from tok on, before end, that the pattern matches
findmatch(tok, pattern, end) ==
    IF tok = NULL THEN NULL
    ELSE First({t \in tok..(IF end # NULL /\ end >= tok THEN end - 1 ELSE Len(tokens)) :
                   Match(t, pattern)})

VAR == {"%var%"}
TYPE == {"%type%"}
ANY == {"%any%"}

-----------------------------------------------------------------------------
(* CheckClass::getVarList: the member variables of a class.  A Var list is  *)
(* the sequence of its Var records from the head of the linked list on.     *)

NewVar(name_, init_, priv_, mutable_, static_, class_) ==
    [name |-> name_, init |-> init_, priv |-> priv_, isMutable |-> mutable_,
     isStatic |-> static_, isClass |-> class_]

\* a list that links the new Var after the last one
LinkVarAtEnd(var, varlist) == varlist \o <<var>>

\* new Var(..., varlist); varlist = var
LinkVar(var, varlist) == <<var>> \o varlist

\* the indentlevel after the token tok
Indent(tok, indentlevel) ==
    IF str(tok) = "{" THEN indentlevel + 1
    ELSE IF str(tok) = "}" THEN indentlevel - 1
    ELSE indentlevel

\* the loop over a __published section: the token it stops at
RECURSIVE SkipPublished(_)
SkipPublished(tok) ==
    IF tok = NULL THEN NULL
    ELSE (CHOOSE it \in {IF Match(next(t), <<AccessLabels>>) THEN t ELSE SkipPublished(next(t))
              : t \in {IF str(tok) = "{" THEN link(tok) ELSE tok}} : TRUE)

\* the token holding the ">" that closes the "<" found from tok on
RECURSIVE TemplateEnd(_, _)
TemplateEnd(tok, level) ==
    IF tok = NULL THEN NULL
    ELSE IF str(tok) = "<"
         THEN (CHOOSE it \in {( TemplateEnd(v[1], v[2])) : v \in {<<next(tok), level + 1>>}} : TRUE)
    ELSE IF str(tok) = ">"
         THEN IF level - 1 = 0 THEN tok
              ELSE (CHOOSE it \in {( TemplateEnd(v[1], v[2])) : v \in {<<next(tok), level - 1>>}} : TRUE)
    ELSE (CHOOSE it \in {( TemplateEnd(v[1], v[2])) : v \in {<<next(tok), level>>}} : TRUE)

\* the variable declared at the token n, after const, static and mutable:
\* its name ("" if this is no declaration of a variable) and whether its
\* type is a class
DeclaredVar(n) ==
    IF Match(n, <<TYPE, VAR, {";", ":"}>>)
        THEN [name |-> str(tokAt(n, 1)), isClass |-> ~isStandardType(n)]
    ELSE IF Match(n, <<{"struct", "union"}, TYPE, VAR, {";"}>>)
        THEN [name |-> str(tokAt(n, 2)), isClass |-> FALSE]
    ELSE IF Match(n, <<TYPE, {"*"}, VAR, {";"}>>)
        THEN [name |-> str(tokAt(n, 2)), isClass |-> FALSE]
    ELSE IF Match(n, <<TYPE, TYPE, {"*"}, VAR, {";"}>>)
        THEN [name |-> str(tokAt(n, 3)), isClass |-> FALSE]
    ELSE IF Match(n, <<TYPE, {"::"}, TYPE, {"*"}, VAR, {";"}>>)
        THEN [name |-> str(tokAt(n, 4)), isClass |-> FALSE]
    ELSE IF Match(n, <<TYPE, VAR, {"["}>>) /\ str(next(n)) # "operator"
        THEN [name |-> str(tokAt(n, 1)), isClass |-> ~isStandardType(n)]
    ELSE IF Match(n, <<TYPE, {"*"}, VAR, {"["}>>)
        THEN [name |-> str(tokAt(n, 2)), isClass |-> FALSE]
    ELSE IF Match(n, <<TYPE, {"::"}, TYPE, {"*"}, VAR, {"["}>>)
        THEN [name |-> str(tokAt(n, 4)), isClass |-> FALSE]
    ELSE IF Match(n, <<TYPE, {"::"}, TYPE, VAR, {";"}>>)
        THEN [name |-> str(tokAt(n, 3)), isClass |-> TRUE]
    ELSE IF Match(n, <<TYPE, {"::"}, TYPE, {"<"}>>) \/ Match(n, <<TYPE, {"<"}>>)
        THEN (CHOOSE it \in {
                IF gt # NULL /\ Match(gt, <<{">"}, VAR, {";"}>>)
                    THEN [name |-> str(tokAt(gt, 1)), isClass |-> TRUE]
                ELSE IF gt # NULL /\ Match(gt, <<{">"}, {"*"}, VAR, {";"}>>)
                    THEN [name |-> str(tokAt(gt, 2)), isClass |-> TRUE]
                ELSE [name |-> "", isClass |-> TRUE]
                : gt \in {TemplateEnd(n, 0)}} : TRUE)
    ELSE [name |-> "", isClass |-> FALSE]

\* the declaration that starts at the token after a statement start:
\* the name of the variable ("" if it declares none) and its flags
VarDeclaration(start) ==
    (CHOOSE it \in {(CHOOSE it \in {(CHOOSE it \in {
        [name |-> found.name, isStatic |-> simpleMatch(n1, <<"static">>),
         isMutable |-> simpleMatch(n2, <<"mutable">>), isClass |-> found.isClass]
        : found \in {DeclaredVar(IF simpleMatch(n2, <<"mutable">>) THEN next(n2) ELSE n2)}} : TRUE)
        : n2 \in {IF simpleMatch(n1, <<"static">>) THEN next(n1) ELSE n1}} : TRUE)
        : n1 \in {IF str(start) = "const" THEN next(start) ELSE start}} : TRUE)

\* is the string that of "private:", "public:", "protected:" etc
IsSection(s) == s \in ColonTokens /\ s \notin {":", "::"}

\* One round of the loop over the tokens of the class.  The state of the
\* loop is <<ended, tok, indentlevel, priv, varlist>>; a round is <<the
\* cursor, priv, the Var list>> at its end.
GetVarListStep(tok, indentlevel, priv, varlist) ==
    IF tok = NULL \/ next(tok) = NULL THEN <<TRUE, tok, indentlevel, priv, varlist>>
    ELSE IF str(tok) = "}" /\ indentlevel <= 1 THEN <<TRUE, tok, indentlevel, priv, varlist>>
    ELSE (CHOOSE it \in {<<FALSE, next(round[1]), Indent(tok, indentlevel), round[2], round[3]>>
        : round \in {(CHOOSE it \in {
            IF Indent(tok, indentlevel) # 1 THEN <<tok, priv, varlist>>
            ELSE IF str(tok) = "__published:" THEN <<SkipPublished(tok), FALSE, varlist>>
            ELSE IF ~Match(tok, <<{";", "{", "}"}>>) /\ ~IsSection(str(tok))
                THEN <<tok, priv2, varlist>>
            ELSE IF str(next(tok)) \in ColonTokens \/ str(next(tok)) = "__property"
                THEN <<tok, priv2, varlist>>
            ELSE (CHOOSE it \in {
                    IF decl.name # "" /\ decl.name # "operator"
                    THEN <<tok, priv2,
                           LinkVar(NewVar(decl.name, FALSE, priv2, decl.isMutable,
                                          decl.isStatic, decl.isClass), varlist)>>
                    ELSE <<tok, priv2, varlist>>
                    : decl \in {VarDeclaration(next(tok))}} : TRUE)
            : priv2 \in {IF IsSection(str(tok)) THEN str(tok) = "private:" ELSE priv}} : TRUE)}} : TRUE)

\* the state of the loop after n rounds or more, or at its end
RECURSIVE GetVarListLoop(_, _)
GetVarListLoop(st, n) ==
    CASE st[1] -> st
      [] ~st[1] /\ n <= 1 -> GetVarListStep(st[2], st[3], st[4], st[5])
      [] OTHER ->
            CHOOSE end \in
              {GetVarListLoop(c, (n + 3) \div 4) : c \in
              {GetVarListLoop(b, (n + 3) \div 4) : b \in
              {GetVarListLoop(a, (n + 3) \div 4) : a \in
              {GetVarListLoop(st, (n + 3) \div 4)}}}} : TRUE

getVarList(tok1) ==
    GetVarListLoop(<<FALSE, tok1, 0, str(tok1) # "struct", <<>>>>, Len(tokens) + 1)[5]

-----------------------------------------------------------------------------
(* CheckClass::argsMatch: does the argument list at second (a definition)   *)
(* match the argument list at first (the declaration in the class)?  path   *)
(* is the class path "S_d :: ... :: S_1 ::" as a sequence of pattern words. *)

\* short_path: the path without its last name and the " :: " after it
ShortPath(path) == SubSeq(path, 1, Len(path) - 2)

\* the second cursor after the "variable with class path" branch
ClassPathSkip(first, second, path, depth) ==
    IF Match(next(second), Lit(path \o <<str(next(first))>>))
        THEN tokAt(second, depth * 2)
    ELSE IF depth > 1 /\ Match(next(second), Lit(ShortPath(path) \o <<str(next(first))>>))
        THEN tokAt(second, (depth - 1) * 2)
    ELSE second

\* a comparison that never takes two different names for parameter names
NamesNeverDiffer(first, second) == FALSE

\* "variable names are different"
NamesDiffer(first, second) ==
    /\ Match(next(first), <<VAR, {",", ")", "="}>>)
    /\ Match(next(second), <<VAR, {",", ")"}>>)
    /\ str(next(first)) # str(next(second))

\* One round of the loop.  The state of the loop is <<returned, match,
\* first, second>>.
ArgsMatchStep(first, second, path, depth) ==
    IF first = NULL \/ second = NULL THEN <<TRUE, FALSE, first, second>>
    ELSE IF str(first) # str(second) THEN <<TRUE, FALSE, first, second>>
    ELSE IF str(first) = ")" THEN <<TRUE, TRUE, first, second>>
    ELSE IF str(next(first)) = "=" THEN <<FALSE, FALSE, tokAt(first, 2), second>>
    ELSE
    \* the two cursors at the end of this round
    (CHOOSE it \in {<<FALSE, FALSE, next(c[1]), next(c[2])>> : c \in {
        IF str(next(first)) = "," /\ str(next(second)) # "," THEN <<first, next(second)>>
        ELSE IF str(next(first)) = ")" /\ str(next(second)) # ")"
            THEN <<first, next(second)>>
        ELSE IF str(next(second)) = "," /\ str(next(first)) # ","
            THEN <<next(first), second>>
        ELSE IF str(next(second)) = ")" /\ str(next(first)) # ")"
            THEN <<next(first), second>>
        ELSE IF NamesDiffer(first, second)
            THEN <<IF str(tokAt(first, 2)) = "=" THEN tokAt(first, 3) ELSE next(first),
                   next(second)>>
        ELSE IF depth > 0 /\ Match(next(first), <<VAR>>)
            THEN <<first, ClassPathSkip(first, second, path, depth)>>
        ELSE <<first, second>>}} : TRUE)

\* the state of the loop after n rounds or more, or at its end
RECURSIVE ArgsMatchLoop(_, _, _, _)
ArgsMatchLoop(st, path, depth, n) ==
    CASE st[1] -> st
      [] ~st[1] /\ n <= 1 -> ArgsMatchStep(st[3], st[4], path, depth)
      [] OTHER ->
            CHOOSE end \in
              {ArgsMatchLoop(c, path, depth, (n + 3) \div 4) : c \in
              {ArgsMatchLoop(b, path, depth, (n + 3) \div 4) : b \in
              {ArgsMatchLoop(a, path, depth, (n + 3) \div 4) : a \in
              {ArgsMatchLoop(st, path, depth, (n + 3) \div 4)}}}} : TRUE

argsMatch(first, second, path, depth) ==
    ArgsMatchLoop(<<FALSE, FALSE, first, second>>, path, depth, Len(tokens) + 1)[2]

-----------------------------------------------------------------------------
(* CheckClass::createSymbolDatabase.  A SpaceInfo pointer is the index of   *)
(* the object in spaceInfo (0: null); spaceInfoMMap lists the indices in    *)
(* the order in which std::multimap iterates: by key, equal keys in order   *)
(* of insertion.                                                            *)

Public == "Public"
Protected == "Protected"
Private == "Private"

Constructor == "Constructor"
CopyConstructor == "CopyConstructor"
OperatorEqual == "OperatorEqual"
Destructor == "Destructor"
Function == "Function"

\* Func::Func()
NewFunc ==
    [tokenDef |-> NULL, token |-> NULL, access |-> Public, hasBody |-> FALSE,
     isInline |-> FALSE, isConst |-> FALSE, isVirtual |-> FALSE, isStatic |-> FALSE,
     isFriend |-> FALSE, isOperator |-> FALSE, type |-> Function]

\* std::less<std::string> on the names used as keys
KeyOrder == <<"A", "B", "C", "N", "T">>

KeyRank(name) == CHOOSE i \in 1..Len(KeyOrder) : KeyOrder[i] = name

KeyLess(a, b) == KeyRank(a) < KeyRank(b)

\* a container that keeps the order of insertion
MMapAppend(mmap, space, key, idx) == Append(mmap, idx)

\* spaceInfoMMap.insert(std::make_pair(className, info)): after the last
\* entry whose key is not greater
MMapInsert(mmap, space, key, idx) ==
    (CHOOSE it \in {SubSeq(mmap, 1, n) \o <<idx>> \o SubSeq(mmap, n + 1, Len(mmap))
         : n \in {Cardinality({i \in 1..Len(mmap) :
                                  ~KeyLess(key, space[mmap[i]].className)})}} : TRUE)

\* the loop to the initial "{" of a class: the "{" and the base classes
RECURSIVE BaseName(_, _)
BaseName(tok2, derivedFrom) ==
    IF Match(tok2, <<VAR, {"::"}>>)
        THEN (CHOOSE it \in {( BaseName(v[1], v[2])) : v \in {<<tokAt(tok2, 2), derivedFrom \o <<str(tok2), "::">>>>}} : TRUE)
        ELSE [tok |-> tok2, name |-> derivedFrom \o <<str(tok2)>>]

RECURSIVE ClassHeader(_, _)
ClassHeader(tok2, derivedFrom) ==
    IF tok2 = NULL \/ str(tok2) = "{" THEN [classStart |-> tok2, derivedFrom |-> derivedFrom]
    ELSE IF Match(tok2, <<{":", ","}, {"public", "protected", "private"}>>)
         THEN (CHOOSE it \in {(
                 ClassHeader(next(base.tok), Append(derivedFrom, base.name))) : base \in {BaseName(tokAt(tok2, 2), <<>>)}} : TRUE)
    ELSE (CHOOSE it \in {( ClassHeader(t, derivedFrom)) : t \in {next(tok2)}} : TRUE)

\* Func::type of the function whose name token is tokenDef
FuncType(tok, tokenDef, className) ==
    IF str(tok) = "operator"
        THEN IF str(tokenDef) = "=" THEN OperatorEqual ELSE Function
    ELSE IF str(tokenDef) = className
        THEN IF str(previous(tokenDef)) = "~" THEN Destructor
             ELSE IF /\ Match(tokenDef, <<VAR, {"("}, {"const"}, VAR, {"&"}, {"%var%", ""}, {")"}>>)
                     /\ str(tokAt(tokenDef, 3)) = className
                  THEN CopyConstructor
             ELSE Constructor
    ELSE Function

\* "look for end of previous statement": the first of virtual, static and
\* friend found before the function name ("" if none)
RECURSIVE Specifier(_)
Specifier(tok1) ==
    IF previous(tok1) = NULL
       \/ Match(previous(tok1), <<{";", "}", "{", "public:", "protected:", "private:"}>>)
        THEN ""
    ELSE IF str(previous(tok1)) \in {"virtual", "static", "friend"} THEN str(previous(tok1))
    ELSE (CHOOSE it \in {Specifier(v) : v \in {previous(tok1)}} : TRUE)

\* while (tok->str() != "{") tok = tok->next(): NULL if there is no "{"
GotoBrace(tok) ==
    IF tok = NULL THEN NULL ELSE First({t \in tok..Len(tokens) : tokens[t] = "{"})

\* a search that takes every definition with a body for the implementation
DefinitionAlwaysMatches(funcArgs, found, classPath, depth) == TRUE

\* if (argsMatch(funcArgs, found->tokAt(2), classPath, depth))
DefinitionMatches(funcArgs, found, classPath, depth) ==
    argsMatch(funcArgs, tokAt(found, 2), classPath, depth)

\* while (found->next()->str() != "(") found = found->next()
GotoFunctionName(found) ==
    IF found = NULL THEN NULL
    ELSE First({t \in found..Len(tokens) : str(next(t)) = "("})

\* the inner loop of the search for an implementation: the name token of
\* the implementation that matches, NULL if this pattern finds none
RECURSIVE FindImplementation(_, _, _, _, _, _)
FindImplementation(start, searchPattern, end, funcArgs, classPath, depth) ==
    (CHOOSE it \in {
        IF found = NULL THEN NULL
        ELSE IF str(previous(found)) = "::" THEN NULL
        ELSE (CHOOSE it \in {
            IF name[1] THEN name[2]
            ELSE FindImplementation(name[2], searchPattern, end, funcArgs, classPath, depth)
            \* <<matches, the function name or the token the search goes on from>>
            : name \in {(CHOOSE it \in {
                IF ~Match(link(next(n)), <<{")"}, {"const", ""}, {"{"}>>) THEN <<FALSE, n>>
                ELSE IF DefinitionMatches(funcArgs, n, classPath, depth) THEN <<TRUE, n>>
                ELSE <<FALSE, link(GotoBrace(n))>>
                : n \in {GotoFunctionName(found)}} : TRUE)}} : TRUE)
        : found \in {findmatch(start, Lit(searchPattern), end)}} : TRUE)

\* "find implementation using names on stack": one round of the outer loop
\* for every enclosing scope, until an implementation is found
RECURSIVE FindOutOfLine(_, _, _, _, _, _, _)
FindOutOfLine(space, info, nest, classPath, depth, classPattern, funcArgs) ==
    IF nest = NULL THEN NULL
    ELSE (CHOOSE it \in {(CHOOSE it \in {
            IF found # NULL THEN found
            ELSE FindOutOfLine(space, info, space[nest].nest, path, depth + 1,
                               classPattern, funcArgs)
            : found \in {FindImplementation(space[info].classEnd, path \o classPattern,
                            IF space[nest].nest # NULL
                            THEN space[space[nest].nest].classEnd ELSE NULL,
                            funcArgs, path, depth + 1)}} : TRUE)
         : path \in {<<space[nest].className, "::">> \o classPath}} : TRUE)

\* "function?": is tok the name token of a member function declaration
IsFunctionDeclaration(tok) ==
    /\ Match(tok, <<VAR, {"("}>>) \/ Match(tok, <<{"operator"}, ANY, {"("}>>)
    /\ str(previous(tok)) # "::"
    /\ Match(IF str(tok) = "operator" THEN link(tokAt(tok, 2)) ELSE link(next(tok)),
             <<{")"}, {"const", ""}, {";", "{", "=", ":"}>>)

\* "out of line function": the declaration has no body in the class
IsOutOfLine(argEnd) ==
    \/ Match(argEnd, <<{")"}, {"const", ""}, {";"}>>)
    \/ Match(argEnd, <<{")"}, {"const", ""}, {"="}, {"0"}, {";"}>>)

\* a push after the search that does not look at hasBody
PushAlways(function) == TRUE

\* is the Func pushed to the functionList when no implementation was found
PushWithoutBody(function) == ~function.hasBody

\* does the function count as a constructor of its class
CountsAsConstructor(function) == function.type \in {Constructor, CopyConstructor}

\* The function declaration at tok in the class info: the Func records
\* pushed to the functionList, the increment of numConstructors and the
\* token at which the loop over the tokens goes on.
FunctionDeclaration(space, info, tok) ==
    (CHOOSE it \in {(CHOOSE it \in {(CHOOSE it \in {
        [pushed |-> IF function.isInline THEN <<function>>
                    ELSE (IF function.hasBody THEN <<function>> ELSE <<>>)
                         \o (IF PushWithoutBody(function) THEN <<function>> ELSE <<>>),
         constructors |-> IF CountsAsConstructor(function) THEN 1 ELSE 0,
         tokenDef |-> tokenDef,
         aborted |-> function.isInline /\ GotoBrace(next(d.next)) = NULL,
         tok |-> IF function.isInline THEN link(GotoBrace(next(d.next)))
                 ELSE next(d.next)]
        : function \in {
            [NewFunc EXCEPT
                !.access = space[info].access,
                !.tokenDef = tokenDef,
                !.isOperator = str(tok) = "operator",
                !.type = FuncType(tok, tokenDef, space[info].className),
                !.isVirtual = d.specifier = "virtual",
                !.isStatic = d.specifier = "static",
                !.isFriend = d.specifier = "friend",
                !.isConst = str(next(d.next)) = "const",
                !.token = IF d.found # NULL THEN d.found ELSE tokenDef,
                !.hasBody = d.found # NULL \/ ~d.outOfLine,
                !.isInline = ~d.outOfLine]}} : TRUE)
        \* the specifier, the end of the arguments and the implementation found
        : d \in {(CHOOSE it \in {
            [specifier |-> Specifier(tok), next |-> argEnd, outOfLine |-> IsOutOfLine(argEnd),
             found |-> IF IsOutOfLine(argEnd)
                       THEN FindOutOfLine(space, info, info, <<>>, 0,
                                (IF str(tok) = "operator" THEN <<"operator">> ELSE <<>>)
                                \o <<str(tokenDef), "(">>,
                                tokAt(tokenDef, 2))
                       ELSE NULL]
            : argEnd \in {link(next(tokenDef))}} : TRUE)}} : TRUE)
        : tokenDef \in {IF str(tok) = "operator" THEN next(tok) ELSE tok}} : TRUE)

\* new SpaceInfo for the class, struct or namespace at tok
NewSpaceInfo(tok, header, info) ==
    [isNamespace |-> str(tok) = "namespace",
     className |-> str(next(tok)),
     classDef |-> tok,
     classStart |-> header.classStart,
     classEnd |-> link(header.classStart),
     numConstructors |-> 0,
     functionList |-> <<>>,
     varlist |-> getVarList(tok),
     derivedFrom |-> header.derivedFrom,
     nest |-> info,
     access |-> IF str(tok) = "struct" THEN Public ELSE Private]

\* One round of the loop over the tokens: tok is the cursor, info the
\* current scope and db the database built so far.  aborted: the loop
\* dereferenced a null pointer (no "{" where the code expects one) and the
\* run ended there.  The state of the loop is <<ended, tok, info, db>>.
BuildStep(tok, info, db) ==
    IF tok = NULL \/ db.aborted THEN <<TRUE, tok, info, db>>
    ELSE
    \* a round is <<the cursor, the current scope, the database>> at its end
    (CHOOSE it \in {<<FALSE, next(round[1]), round[2], round[3]>> : round \in {
        IF Match(tok, <<{"class", "struct", "namespace"}, VAR, {"{", ":"}>>)
        THEN (CHOOSE it \in {
                IF header.classStart = NULL THEN <<tok, info, [db EXCEPT !.aborted = TRUE]>>
                ELSE <<header.classStart, Len(db.space) + 1,
                       [db EXCEPT
                          !.space = Append(db.space, NewSpaceInfo(tok, header, info)),
                          !.mmap = MMapInsert(db.mmap, db.space, str(next(tok)),
                                              Len(db.space) + 1)]>>
                : header \in {ClassHeader(tokAt(tok, 2), <<>>)}} : TRUE)
        ELSE IF info = NULL \/ db.space[info].isNamespace THEN <<tok, info, db>>
        ELSE IF tok = db.space[info].classEnd THEN <<tok, db.space[info].nest, db>>
        ELSE IF str(tok) = "private:"
            THEN <<tok, info, [db EXCEPT !.space[info].access = Private]>>
        ELSE IF str(tok) = "protected:"
            THEN <<tok, info, [db EXCEPT !.space[info].access = Protected]>>
        ELSE IF str(tok) = "public:"
            THEN <<tok, info, [db EXCEPT !.space[info].access = Public]>>
        ELSE IF IsFunctionDeclaration(tok)
            THEN (CHOOSE it \in {
                    <<decl.tok, info,
                      [db EXCEPT
                         !.space[info].functionList = @ \o decl.pushed,
                         !.space[info].numConstructors = @ + decl.constructors,
                         !.declared = Append(@, <<info, decl.tokenDef>>),
                         !.aborted = decl.aborted]>>
                    : decl \in {FunctionDeclaration(db.space, info, tok)}} : TRUE)
        ELSE <<tok, info, db>>}} : TRUE)

\* the state of the loop after n rounds or more, or at its end
RECURSIVE BuildLoop(_, _)
BuildLoop(st, n) ==
    CASE st[1] -> st
      [] ~st[1] /\ n <= 1 -> BuildStep(st[2], st[3], st[4])
      [] OTHER ->
            CHOOSE end \in
              {BuildLoop(c, (n + 3) \div 4) : c \in
              {BuildLoop(b, (n + 3) \div 4) : b \in
              {BuildLoop(a, (n + 3) \div 4) : a \in
              {BuildLoop(st, (n + 3) \div 4)}}}} : TRUE

\* a build that does not bail out on a later call
NeverBailOut(has) == FALSE

\* "Multiple calls => bail out"
BailOut(has) == has

\* createSymbolDatabase on a CheckClass whose members are db
createSymbolDatabase(db) ==
    IF BailOut(db.hasSymbolDatabase) THEN db
    ELSE BuildLoop(<<FALSE, IF tokens = <<>> THEN NULL ELSE 1, NULL,
                     [db EXCEPT !.hasSymbolDatabase = TRUE]>>, Len(tokens) + 1)[4]

\* no call of initializeVarList has returned
NoAnalysis == [varlist |-> <<>>, callstack |-> <<>>, log |-> {}]

\* no object on the heap
NoObjects == [SpaceInfo |-> 0, Var |-> 0, releasedTwice |-> FALSE]

\* the Var records of the lists of the scopes space[from..to]
RECURSIVE VarRecords(_, _, _)
VarRecords(space, from, to) ==
    IF from > to THEN 0 ELSE Len(space[from].varlist) + VarRecords(space, from + 1, to)

\* the heap after createSymbolDatabase made the database db: "new SpaceInfo"
\* and the "new Var" of getVarList for every scope it added
Allocated(objects, db) ==
    [objects EXCEPT !.SpaceInfo = @ + Len(db.space) - Len(spaceInfo),
                    !.Var = @ + VarRecords(db.space, Len(spaceInfo) + 1, Len(db.space))]

\* the members of this CheckClass
Members ==
    [space |-> spaceInfo, mmap |-> spaceInfoMMap, aborted |-> aborted,
     hasSymbolDatabase |-> hasSymbolDatabase, declared |-> declared]

-----------------------------------------------------------------------------
(* Tokenizer::findClassFunction: the implementation of the member function  *)
(* funcname of the class declared at tok, in the class body or after it as  *)
(* "classname :: funcname (".                                               *)

\* One round of the loop; the state of the loop is <<returned, tok,
\* indentlevel>>, and a round is <<returns, token, indentlevel>>.
FindClassFunctionStep(tok, classname, funcname, indentlevel, isStruct) ==
    IF tok = NULL THEN <<TRUE, NULL, indentlevel>>
    ELSE (CHOOSE it \in {IF round[1] THEN round ELSE <<FALSE, next(round[2]), round[3]>>
        : round \in {
            IF /\ indentlevel = 0
               /\ Match(tok, <<{IF isStruct THEN "struct" ELSE "class"}, {classname},
                               {":", "{"}>>)
                THEN <<FALSE, GotoBrace(tok), 1>>
            ELSE IF str(tok) = "{" /\ indentlevel = 0 THEN <<FALSE, link(tok), 0>>
            ELSE IF Indent(tok, indentlevel) < 0 THEN <<TRUE, NULL, 0>>
            ELSE IF /\ Indent(tok, indentlevel) = 1
                    /\ str(tok) # "~"
                    /\ Match(next(tok), <<{funcname}, {"("}>>)
                    /\ str(findmatch(next(tok), <<{"{", ";"}>>, NULL)) = "{"
                THEN <<TRUE, next(tok), 1>>
            ELSE IF /\ Indent(tok, indentlevel) = 0
                    /\ Match(tok, <<{classname}, {"::"}, {funcname}, {"("}>>)
                    /\ str(previous(tok)) # "::"
                THEN <<TRUE, tok, 0>>
            ELSE <<FALSE, tok, Indent(tok, indentlevel)>>}} : TRUE)

\* the state of the loop after n rounds or more, or at its end
RECURSIVE FindClassFunctionLoop(_, _, _, _, _)
FindClassFunctionLoop(st, classname, funcname, isStruct, n) ==
    CASE st[1] -> st
      [] ~st[1] /\ n <= 1 ->
            FindClassFunctionStep(st[2], classname, funcname, st[3], isStruct)
      [] OTHER ->
            CHOOSE end \in
              {FindClassFunctionLoop(c, classname, funcname, isStruct, (n + 3) \div 4) : c \in
              {FindClassFunctionLoop(b, classname, funcname, isStruct, (n + 3) \div 4) : b \in
              {FindClassFunctionLoop(a, classname, funcname, isStruct, (n + 3) \div 4) : a \in
              {FindClassFunctionLoop(st, classname, funcname, isStruct, (n + 3) \div 4)}}}} : TRUE

findClassFunction(tok, classname, funcname, isStruct) ==
    FindClassFunctionLoop(<<FALSE, tok, 0>>, classname, funcname, isStruct,
                          Len(tokens) + 1)[2]

-----------------------------------------------------------------------------
(* CheckClass::initVar and CheckClass::initializeVarList: the init flags    *)
(* set by the function body that starts at ftok.                            *)

\* set init of the first Var named varname
initVar(varlist, varname) ==
    [i \in 1..Len(varlist) |->
        IF varlist[i].name = varname /\ \A j \in 1..(i - 1) : varlist[j].name # varname
        THEN [varlist[i] EXCEPT !.init = TRUE]
        ELSE varlist[i]]

\* a bail-out that sets no flag
InitNone(varlist) == varlist

\* for (Var *var = varlist; var; var = var->next) var->init = true
InitAll(varlist) == [i \in 1..Len(varlist) |-> [varlist[i] EXCEPT !.init = TRUE]]

\* "Passing this": is there a token "this" between the name and its ")"
RECURSIVE PassesThis(_, _)
PassesThis(tok2, ftok) ==
    IF tok2 = NULL \/ tok2 = ftok THEN FALSE
    ELSE IF str(tok2) = "this" THEN TRUE
    ELSE (CHOOSE it \in {PassesThis(t, ftok) : t \in {previous(tok2)}} : TRUE)

\* is the header from tok to its "{" the header of a derived class
RECURSIVE HeaderHasColon(_)
HeaderHasColon(tok) ==
    IF tok = NULL \/ str(tok) = "{" THEN FALSE
    ELSE IF str(tok) = ":" THEN TRUE
    ELSE (CHOOSE it \in {HeaderHasColon(t) : t \in {next(tok)}} : TRUE)

\* the loop over the class body that looks for a declaration of the called
\* function or a friend: the token it ends at (NULL: found, or end of list)
RECURSIVE DeclarationScan(_, _)
DeclarationScan(tok, funcname) ==
    IF tok = NULL THEN NULL
    ELSE IF str(tok) = "}" THEN tok
    ELSE IF str(tok) = "friend" \/ (str(tok) = funcname /\ str(next(tok)) = "(") THEN NULL
    ELSE (CHOOSE it \in {DeclarationScan(t, funcname)
              : t \in {next(IF str(tok) = "{" THEN link(tok) ELSE tok)}} : TRUE)

\* "assume all variables that are passed to it are initialized"
RECURSIVE InitArguments(_, _, _)
InitArguments(tok, indentlevel2, varlist) ==
    IF tok = NULL THEN varlist
    ELSE IF str(tok) = ")" /\ indentlevel2 = 0 THEN varlist
    ELSE (CHOOSE it \in {InitArguments(v[1], v[2], v[3]) : v \in {
            <<next(tok),
              IF str(tok) = "(" THEN indentlevel2 + 1
              ELSE IF str(tok) = ")" THEN indentlevel2 - 1
              ELSE indentlevel2,
              IF isName(str(tok)) THEN initVar(varlist, str(tok)) ELSE varlist>>}} : TRUE)

\* is a called function that has no implementation declared in the class
\* of tok1, or a friend there, or is the class derived
CalledFunctionUnknown(tok1, funcname) ==
    \E classTok \in {findmatch(IF tokens = <<>> THEN NULL ELSE 1,
                               <<{str(tok1)}, {str(next(tok1))}, {"{", ":"}>>, NULL)} :
        \/ DeclarationScan(next(GotoBrace(classTok)), funcname) = NULL
        \/ HeaderHasColon(classTok)

\* the first token of the statement that starts after ftok, past
\* "( * this ) .", "this ." and "classname ::"
StatementToken(ftok) ==
    (CHOOSE it \in {(CHOOSE it \in {IF Match(f2, <<VAR, {"::"}>>) THEN tokAt(f2, 2) ELSE f2
              : f2 \in {IF simpleMatch(f1, <<"this", ".">>) THEN tokAt(f1, 2) ELSE f1}} : TRUE)
         : f1 \in {IF simpleMatch(next(ftok), <<"(", "*", "this", ")", ".">>)
                   THEN tokAt(ftok, 6) ELSE next(ftok)}} : TRUE)

\* the token whose name an assignment statement at ftok initializes
AssignedVar(ftok) ==
    IF Match(ftok, <<VAR, {"="}>>) THEN ftok
    ELSE IF Match(ftok, <<VAR, {"["}, ANY, {"]"}, {"="}>>) THEN ftok
    ELSE IF Match(ftok, <<VAR, {"["}, ANY, {"]"}, {"["}, ANY, {"]"}, {"="}>>) THEN ftok
    ELSE IF Match(ftok, <<{"*"}, VAR, {"="}>>) THEN next(ftok)
    ELSE IF Match(ftok, <<VAR, {"."}, ANY, {"="}>>) THEN ftok
    ELSE NULL

\* "The functions 'clear' and 'Clear' are supposed to initialize variable."
ClearCall(ftok, varlist) ==
    IF Match(ftok, <<VAR, {"."}, {"clear", "Clear"}, {"("}>>)
    THEN initVar(varlist, str(ftok)) ELSE varlist

\* the statement that starts after the token start: the round it makes
\* a call that is pushed twice
PushBackTwice(callstack, name) == Append(Append(callstack, name), name)

\* callstack.push_back(ftok->str())
PushBack(callstack, name) == Append(callstack, name)

\* callstack.pop_back()
PopBack(callstack) == SubSeq(callstack, 1, Len(callstack) - 1)

RECURSIVE initializeVarListCalls(_, _, _, _)
InitializeStatement(tok1, start, varlist, calls, Assign, indentlevel) ==
    IF simpleMatch(next(start), <<"*", "this", "=">>)
        THEN <<TRUE, start, InitAll(varlist), Assign, indentlevel, calls>>
    ELSE (CHOOSE it \in {
        IF /\ ~Match(next(f), <<VAR>>)
           /\ ~Match(next(f), <<{"this"}, {"."}, VAR>>)
           /\ ~Match(next(f), <<{"*"}, VAR, {"="}>>)
           /\ ~Match(next(f), <<{"("}, {"*"}, {"this"}, {")"}, {"."}, VAR>>)
            THEN <<FALSE, f, varlist, Assign, indentlevel, calls>>
        ELSE (CHOOSE it \in {
            IF simpleMatch(ftok, <<"memset", "(", "this", ",">>)
                THEN <<TRUE, ftok, InitAll(varlist), Assign, indentlevel, calls>>
            ELSE IF Match(ftok, <<{"memset"}, {"("}, VAR, {","}>>)
                THEN <<FALSE, link(next(ftok)), initVar(varlist, str(tokAt(ftok, 2))),
                       Assign, indentlevel, calls>>
            ELSE IF Match(ftok, <<VAR, {"("}>>) /\ str(ftok) # "if"
                THEN IF \/ PassesThis(link(next(ftok)), ftok)
                        \/ \E i \in 1..Len(calls.callstack) : calls.callstack[i] = str(ftok)
                        THEN <<TRUE, ftok, InitAll(varlist), Assign, indentlevel, calls>>
                     ELSE (CHOOSE it \in {
                        IF ftok2 # NULL
                            THEN (CHOOSE it \in {
                                <<FALSE, ftok, done[1], Assign, indentlevel,
                                  [done[2] EXCEPT !.callstack = PopBack(@)]>>
                                : done \in {initializeVarListCalls(tok1, ftok2, varlist,
                                    [calls EXCEPT !.callstack = PushBack(@, str(ftok))])}} : TRUE)
                        ELSE IF CalledFunctionUnknown(tok1, str(ftok))
                            THEN <<TRUE, ftok, InitAll(varlist), Assign, indentlevel, calls>>
                        ELSE <<FALSE, ftok, InitArguments(tokAt(ftok, 2), 0, varlist),
                               Assign, indentlevel, calls>>
                        : ftok2 \in {findClassFunction(tok1, str(next(tok1)), str(ftok),
                                                       str(tok1) = "struct")}} : TRUE)
            ELSE <<FALSE, ftok,
                   ClearCall(ftok, IF AssignedVar(ftok) = NULL THEN varlist
                                   ELSE initVar(varlist, str(AssignedVar(ftok)))),
                   Assign, indentlevel, calls>>
            : ftok \in {StatementToken(f)}} : TRUE)
        : f \in {IF Match(next(start), <<VAR, {"."}, VAR, {"("}>>)
                 THEN tokAt(start, 2) ELSE start}} : TRUE)

\* One round of the loop over the tokens of the function.  The state of
\* the loop is <<returned, ftok, varlist, Assign, indentlevel, calls>>, and so is
\* a round, with the token the round ends at.
InitializeStep(tok1, ftok, varlist, calls, Assign, indentlevel) ==
    IF ftok = NULL \/ next(ftok) = NULL THEN <<TRUE, ftok, varlist, Assign, indentlevel, calls>>
    ELSE (CHOOSE it \in {IF round[1] THEN round
              ELSE <<FALSE, next(round[2]), round[3], round[4], round[5], round[6]>>
        : round \in {(CHOOSE it \in {
            IF str(ftok) = "}" /\ indentlevel <= 1 THEN <<TRUE, ftok, s[1], s[2], s[3], calls>>
            ELSE IF s[3] < 1 THEN <<FALSE, ftok, s[1], s[2], s[3], calls>>
            ELSE IF ~Match(ftok, <<{"{", "}", ";", "(", ")", "="}>>)
                THEN <<FALSE, ftok, s[4], s[2], s[3], calls>>
            ELSE InitializeStatement(tok1,
                    IF simpleMatch(ftok, <<"(", "!">>) THEN next(ftok) ELSE ftok,
                    s[4], calls, s[2], s[3])
            \* <<varlist and Assign after the initializer list, the new
            \*   indentlevel, varlist after ">> %var%">>
            : s \in {(CHOOSE it \in {
                <<v, IF str(ftok) = "{" THEN FALSE
                     ELSE IF indentlevel = 0 THEN Assign \/ str(ftok) = ":"
                     ELSE Assign,
                  Indent(ftok, indentlevel),
                  IF Match(ftok, <<{">>"}, VAR>>) THEN initVar(v, str(next(ftok))) ELSE v>>
                : v \in {
                    IF indentlevel = 0 /\ Assign /\ Match(ftok, <<VAR, {"("}>>)
                    THEN IF Match(tokAt(ftok, 2), <<VAR, {"="}>>)
                         THEN initVar(initVar(varlist, str(ftok)), str(tokAt(ftok, 2)))
                         ELSE initVar(varlist, str(ftok))
                    ELSE varlist}} : TRUE)}} : TRUE)}} : TRUE)

\* the state of the loop after n rounds or more, or at its end
RECURSIVE InitializeLoop(_, _, _)
InitializeLoop(tok1, st, n) ==
    CASE st[1] -> st
      [] ~st[1] /\ n <= 1 -> InitializeStep(tok1, st[2], st[3], st[6], st[4], st[5])
      [] OTHER ->
            CHOOSE end \in
              {InitializeLoop(tok1, c, (n + 3) \div 4) : c \in
              {InitializeLoop(tok1, b, (n + 3) \div 4) : b \in
              {InitializeLoop(tok1, a, (n + 3) \div 4) : a \in
              {InitializeLoop(tok1, st, (n + 3) \div 4)}}}} : TRUE

\* One call of initializeVarList with the callstack calls.callstack: the
\* varlist when it returns and the calls, with the callstack as the call
\* leaves it and, in the log, the callstack and the varlist on entry and on
\* return
initializeVarListCalls(tok1, ftok, varlist, calls) ==
    (CHOOSE it \in {
        <<end[3], [end[6] EXCEPT !.log = @ \cup {<<calls.callstack, end[6].callstack,
                                                 varlist, end[3]>>}]>>
        : end \in {InitializeLoop(tok1, <<FALSE, ftok, varlist, FALSE, 0, calls>>,
                                  Len(tokens) + 1)}} : TRUE)

initializeVarList(tok1, ftok, varlist, callstack) ==
    initializeVarListCalls(tok1, ftok, varlist, [callstack |-> callstack, log |-> {}])[1]

-----------------------------------------------------------------------------
(* The checks.  A diagnostic is what reportError is given: the token, the   *)
(* severity, the id and the names the message is built from.                *)

Diagnostic(tok, severity, id, names) ==
    [tok |-> tok, severity |-> severity, id |-> id, names |-> names]

noConstructorError(tok, classname, isStruct) ==
    Diagnostic(tok, "style", "noConstructor",
               <<IF isStruct THEN "struct" ELSE "class", classname>>)

uninitVarError(tok, classname, varname) ==
    Diagnostic(tok, "style", "uninitVar", <<classname, varname>>)

operatorEqVarError(tok, classname, varname) ==
    Diagnostic(tok, "style", "operatorEqVarError", <<classname, varname>>)

operatorEqReturnError(tok) == Diagnostic(tok, "style", "operatorEq", <<>>)

\* a test that takes every private variable to need a constructor
NeedsConstructorAnyPrivate(info) ==
    /\ info.numConstructors = 0
    /\ \E k \in 1..Len(info.varlist) : info.varlist[k].priv

\* "If there is a private variable, there should be a constructor"
NeedsConstructor(info) ==
    /\ info.numConstructors = 0
    /\ \E k \in 1..Len(info.varlist) :
          info.varlist[k].priv /\ ~info.varlist[k].isClass /\ ~info.varlist[k].isStatic

\* a scan that takes the class name to be used by every operator=
ClassNameAlwaysUsed(operTok, end, className) == TRUE

\* is the class name used between operStart and its link
RECURSIVE ClassNameUsed(_, _, _)
ClassNameUsed(operTok, end, className) ==
    IF operTok = NULL \/ operTok = end THEN FALSE
    ELSE IF str(operTok) = className THEN TRUE
    ELSE (CHOOSE it \in {ClassNameUsed(t, end, className) : t \in {next(operTok)}} : TRUE)

\* the diagnostics for the variable var after the analysis of function
VarDiagnostics(info, function, var) ==
    IF var.isClass /\ function.type = Constructor THEN <<>>
    ELSE IF var.init \/ var.isStatic THEN <<>>
    ELSE IF function.type = OperatorEqual
         THEN IF \E operStart \in {IF str(function.token) = "="
                                   THEN tokAt(function.token, 1)
                                   ELSE tokAt(function.token, 3)} :
                    ClassNameUsed(operStart, link(operStart), info.className)
              THEN <<operatorEqVarError(function.token, info.className, var.name)>>
              ELSE <<>>
    ELSE IF function.access # Private /\ ~var.isStatic
         THEN <<uninitVarError(function.token, info.className, var.name)>>
    ELSE <<>>

\* "Check if any variables are uninitialized": from the k-th Var on
RECURSIVE VarlistDiagnostics(_, _, _, _)
VarlistDiagnostics(info, function, varlist, k) ==
    IF k > Len(varlist) THEN <<>>
    ELSE VarDiagnostics(info, function, varlist[k])
         \o VarlistDiagnostics(info, function, varlist, k + 1)

\* a start of the analysis that keeps the flags of the function before
KeepInit(varlist) == varlist

\* "Mark all variables not used"
ClearInit(varlist) == [k \in 1..Len(varlist) |-> [varlist[k] EXCEPT !.init = FALSE]]

\* the loop over the functionList of the scope idx, from the j-th Func on:
\* the SpaceInfo objects with the init flags it leaves and its diagnostics
RECURSIVE ConstructorsFunctions(_, _, _, _)
ConstructorsFunctions(space, idx, j, reported) ==
    IF j > Len(space[idx].functionList) THEN [space |-> space, errors |-> reported]
    ELSE (CHOOSE it \in {ConstructorsFunctions(round[1], idx, j + 1, round[2]) : round \in {(CHOOSE it \in {
            IF ~function.hasBody
               \/ function.type \notin {Constructor, CopyConstructor, OperatorEqual}
            THEN <<space, reported>>
            ELSE (CHOOSE it \in {
                    <<[space EXCEPT ![idx].varlist = varlist],
                      reported \o VarlistDiagnostics(space[idx], function, varlist, 1)>>
                    : varlist \in {initializeVarList(space[idx].classDef, function.token,
                                                     ClearInit(space[idx].varlist), <<>>)}} : TRUE)
            : function \in {space[idx].functionList[j]}} : TRUE)}} : TRUE)

\* the loop of constructors() over spaceInfoMMap, from its i-th entry on
RECURSIVE ConstructorsLoop(_, _, _, _)
ConstructorsLoop(space, mmap, i, reported) ==
    IF i > Len(mmap) THEN [space |-> space, errors |-> reported]
    ELSE (CHOOSE it \in {ConstructorsLoop(done.space, mmap, i + 1, done.errors) : done \in {(CHOOSE it \in {
            ConstructorsFunctions(space, mmap[i], 1,
                reported \o (IF NeedsConstructor(info)
                             THEN <<noConstructorError(info.classDef, info.className,
                                                       str(info.classDef) = "struct")>>
                             ELSE <<>>))
            : info \in {space[mmap[i]]}} : TRUE)}} : TRUE)

\* the diagnostics of operatorEq() for the functions of one scope
RECURSIVE OperatorEqFunctions(_, _)
OperatorEqFunctions(functionList, j) ==
    IF j > Len(functionList) THEN <<>>
    ELSE (IF /\ functionList[j].type = OperatorEqual
             /\ functionList[j].access # Private
             /\ str(tokAt(functionList[j].token, -2)) = "void"
          THEN <<operatorEqReturnError(tokAt(functionList[j].token, -2))>>
          ELSE <<>>)
         \o OperatorEqFunctions(functionList, j + 1)

RECURSIVE OperatorEqLoop(_, _, _)
OperatorEqLoop(space, mmap, i) ==
    IF i > Len(mmap) THEN <<>>
    ELSE OperatorEqFunctions(space[mmap[i]].functionList, 1)
         \o OperatorEqLoop(space, mmap, i + 1)

-----------------------------------------------------------------------------
(* CheckClass::operatorEqRetRefThis: operator= should return a reference    *)
(* to *this.                                                                *)

operatorEqRetRefThisError(tok) == Diagnostic(tok, "style", "operatorEqRetRefThis", <<>>)

\* "make sure return signature is correct"
ReturnsClassReference(info, function) ==
    /\ Match(tokAt(function.tokenDef, -4),
             <<{";", "}", "{", "public:", "protected:", "private:"}, TYPE, {"&"}>>)
    /\ str(tokAt(function.tokenDef, -3)) = info.className

\* the tokens "return" the loop over the body visits: from the second token
\* after the ")" of the arguments up to the link of the token after it
ReturnTokens(function) ==
    (CHOOSE it \in {
        IF tokAt(tok, 2) = NULL THEN {}
        ELSE {r \in tokAt(tok, 2)..Len(tokens) :
                  /\ tokens[r] = "return"
                  /\ link(next(tok)) \notin tokAt(tok, 2)..r}
        : tok \in {link(next(function.token))}} : TRUE)

\* "check for return of reference to this": is the return at tok one
ReturnsThis(info, tok) ==
    \E after \in {IF Match(next(tok), <<{"("}, {info.className}, {"&"}, {")"}>>)
                  THEN tokAt(tok, 4) ELSE tok} :
        \/ Match(tokAt(after, 1), <<{"(", ""}, {"*"}, {"this"}, {";", "="}>>)
        \/ Match(tokAt(after, 1), <<{"(", ""}, {"*"}, {"this"}, {"+="}>>)
        \/ Match(tokAt(after, 1), <<{"operator"}, {"="}, {"("}>>)

\* the diagnostics for one function: one for every return that is none of
\* this, and one if there is no return
RetRefThisFunction(info, function) ==
    IF function.type # OperatorEqual \/ ~function.hasBody THEN <<>>
    ELSE IF ~ReturnsClassReference(info, function) THEN <<>>
    ELSE [k \in 1..(IF ReturnTokens(function) = {} THEN 1
                    ELSE Cardinality({r \in ReturnTokens(function) : ~ReturnsThis(info, r)}))
            |-> operatorEqRetRefThisError(function.token)]

RECURSIVE RetRefThisFunctions(_, _)
RetRefThisFunctions(info, j) ==
    IF j > Len(info.functionList) THEN <<>>
    ELSE RetRefThisFunction(info, info.functionList[j]) \o RetRefThisFunctions(info, j + 1)

RECURSIVE RetRefThisLoop(_, _, _)
RetRefThisLoop(space, mmap, i) ==
    IF i > Len(mmap) THEN <<>>
    ELSE RetRefThisFunctions(space[mmap[i]], 1) \o RetRefThisLoop(space, mmap, i + 1)

-----------------------------------------------------------------------------
(* CheckClass::operatorEqToSelf: operator= should check for assignment to   *)
(* self.  A class name is the sequence of its tokens, "N :: A" for a nested *)
(* class.                                                                   *)

operatorEqToSelfError(tok) == Diagnostic(tok, "style", "operatorEqToSelf", <<>>)

\* "match two lists of tokens"
nameMatch(tok1, tok2, length) ==
    \A i \in 0..(length - 1) :
        /\ tokAt(tok1, i) # NULL /\ tokAt(tok2, i) # NULL
        /\ str(tokAt(tok1, i)) = str(tokAt(tok2, i))

\* a deallocation counted wherever it stands in the body
hasDeallocationAnywhere(first, last) ==
    \E tok \in first..(last - 1) :
        IF Match(tok, <<ANY, {"free"}, {"("}, VAR>>)
        THEN \E tok1 \in (tok + 4)..(last - 1) :
                Match(tok1, <<VAR, {"="}>>) /\ str(tok1) = str(tokAt(tok, 3))
        ELSE IF Match(tok, <<ANY, {"delete"}, {"["}, {"]"}, VAR>>)
        THEN \E tok1 \in (tok + 5)..(last - 1) :
                /\ Match(tok1, <<VAR, {"="}, {"new"}, TYPE, {"["}>>)
                /\ str(tok1) = str(tokAt(tok, 4))
        ELSE IF Match(tok, <<ANY, {"delete"}, VAR>>)
        THEN \E tok1 \in (tok + 3)..(last - 1) :
                Match(tok1, <<VAR, {"="}, {"new"}>>) /\ str(tok1) = str(tokAt(tok, 2))
        ELSE FALSE

\* "deallocate member ; ... member = allocate" between first and last
hasDeallocation(first, last) ==
    \E tok \in first..(last - 1) :
        IF Match(tok, <<{"{", ";", ","}, {"free"}, {"("}, VAR>>)
        THEN \E tok1 \in (tok + 4)..(last - 1) :
                Match(tok1, <<VAR, {"="}>>) /\ str(tok1) = str(tokAt(tok, 3))
        ELSE IF Match(tok, <<{"{", ";", ","}, {"delete"}, {"["}, {"]"}, VAR>>)
        THEN \E tok1 \in (tok + 5)..(last - 1) :
                /\ Match(tok1, <<VAR, {"="}, {"new"}, TYPE, {"["}>>)
                /\ str(tok1) = str(tokAt(tok, 4))
        ELSE IF Match(tok, <<{"{", ";", ","}, {"delete"}, VAR>>)
        THEN \E tok1 \in (tok + 3)..(last - 1) :
                Match(tok1, <<VAR, {"="}, {"new"}>>) /\ str(tok1) = str(tokAt(tok, 2))
        ELSE FALSE

\* is there an "if (...)" between first and last that compares this with
\* the address of rhs
hasAssignSelf(first, last, rhs) ==
    \E tok \in first..(last - 1) :
        /\ Match(tok, <<{"if"}, {"("}>>)
        /\ tokAt(tok, 2) # NULL /\ link(tokAt(tok, 1)) # NULL
        /\ \E tok1 \in (tok + 2)..(link(tokAt(tok, 1)) - 1) :
              \/ /\ Match(tok1, <<{"this"}, {"==", "!="}, {"&"}, VAR>>)
                 /\ str(tokAt(tok1, 3)) = str(rhs)
              \/ /\ Match(tok1, <<{"&"}, VAR, {"==", "!="}, {"this"}>>)
                 /\ str(tokAt(tok1, 1)) = str(rhs)

\* is there a "," from tok to the next "{"
hasMultipleInheritanceInline(tok) ==
    /\ tok # NULL
    /\ \E c \in tok..Len(tokens) :
          tokens[c] = "," /\ \A b \in tok..c : tokens[b] # "{"

\* the class or struct token of the class name, found from tok on through
\* the classes it is nested in
RECURSIVE ClassToken(_, _)
ClassToken(tok, name) ==
    IF Len(name) <= 1 THEN findmatch(tok, <<{"class", "struct"}, {name[1]}>>, NULL)
    ELSE (CHOOSE it \in {ClassToken(outer, SubSeq(name, 3, Len(name)))
              : outer \in {findmatch(tok, <<{"class", "struct"}, {name[1]}>>, NULL)}} : TRUE)

hasMultipleInheritanceGlobal(start, name) ==
    hasMultipleInheritanceInline(ClassToken(start, name))

\* "check backwards for proper function signature": the first token of the
\* qualified class name that ends at tok1
RECURSIVE QualifiedNameStart(_)
QualifiedNameStart(tok1) ==
    IF tokAt(tok1, -2) # NULL /\ Match(tokAt(tok1, -2), <<TYPE, {"::"}>>)
    THEN (CHOOSE it \in {QualifiedNameStart(t) : t \in {tokAt(tok1, -2)}} : TRUE)
    ELSE tok1

\* is the body after the ")" at tok1 one that deallocates and allocates
\* again without a check for assignment to self
UncheckedDeallocation(tok1, rhs) ==
    /\ tok1 # NULL
    /\ str(tokAt(tok1, 1)) = "{"
    /\ link(tokAt(tok1, 1)) # NULL
    /\ ~hasAssignSelf(tokAt(tok1, 1), link(tokAt(tok1, 1)), rhs)
    /\ hasDeallocation(tokAt(tok1, 1), link(tokAt(tok1, 1)))

\* the "operator = (" at tok after "Class ::": is it reported
ToSelfGlobal(tok) ==
    \E className \in {QualifiedNameStart(tokAt(tok, -2))} :
    \E nameLength \in {tok - className - 1} :
        /\ ~hasMultipleInheritanceGlobal(IF tokens = <<>> THEN NULL ELSE 1,
                                         SubSeq(tokens, className, className + nameLength - 1))
        /\ str(tokAt(className, -1)) = "&"
        /\ tokAt(className, -(1 + nameLength)) # NULL
        /\ nameMatch(className, tokAt(className, -(1 + nameLength)), nameLength)
        /\ Match(tokAt(tok, 3),
                 <<{"const"}>> \o Lit(SubSeq(tokens, className, className + nameLength - 1))
                    \o <<{"&"}, VAR, {")"}>>)
        /\ nameMatch(className, tokAt(tok, 4), nameLength)
        /\ UncheckedDeallocation(link(tokAt(tok, 2)), tokAt(tok, 5 + nameLength))

\* the "operator = (" at tok in a class whose "class" or "struct" is tok1
ToSelfInline(tok, tok1) ==
    /\ ~hasMultipleInheritanceInline(tok1)
    /\ str(tokAt(tok, -2)) = str(tokAt(tok1, 1))
    /\ Match(tokAt(tok, 3), <<{"const"}, TYPE, {"&"}, VAR, {")"}>>)
    /\ str(tokAt(tok, 4)) = str(tokAt(tok1, 1))
    /\ UncheckedDeallocation(link(tokAt(tok, 2)), tokAt(tok, 6))

\* what the loop does at the token tok: "error" if it reports it, "crash"
\* if no class or struct stands before an operator= that is not qualified
\* (className is a null pointer), else "none"
ToSelf(tok) ==
    IF ~Match(tok, <<{"operator"}, {"="}, {"("}>>) THEN "none"
    ELSE IF tokAt(tok, -2) # NULL /\ Match(tokAt(tok, -2), <<TYPE, {"::"}>>)
        THEN (IF ToSelfGlobal(tok) THEN "error" ELSE "none")
    ELSE IF str(tokAt(tok, -1)) # "&" THEN "none"
    ELSE IF \A c \in 1..tok : ~Match(c, <<{"class", "struct"}, VAR>>) THEN "crash"
    ELSE IF ToSelfInline(tok, Last({c \in 1..tok : Match(c, <<{"class", "struct"}, VAR>>)}))
        THEN "error"
    ELSE "none"

\* the loop over the "operator = (" of the token list: its diagnostics for
\* the tokens from..to, up to the first crash
RECURSIVE operatorEqToSelf(_, _)
operatorEqToSelf(from, to) ==
    IF from > to THEN <<>>
    ELSE IF from = to
        THEN (IF ToSelf(from) = "error" THEN <<operatorEqToSelfError(from)>> ELSE <<>>)
    ELSE operatorEqToSelf(from, (from + to) \div 2)
         \o operatorEqToSelf((from + to) \div 2 + 1, to)

-----------------------------------------------------------------------------
(* CheckClass::virtualDestructor: a base class that is inherited publicly   *)
(* should have a virtual destructor.                                        *)

virtualDestructorError(tok, Base, Derived) ==
    Diagnostic(tok, "error", "virtualDestructor", <<Base, Derived>>)

\* a destructor taken as public in whatever section it stands
DestructorAnyAccess(reverseTok) == TRUE

\* "Make sure that the destructor is public": the walk back from
\* reverseTok stops at the nearest access label, or at the nearest "{" that
\* is not the "{" of a block closed before reverseTok; is it "public:"
DestructorIsPublic(reverseTok) ==
    str(Last({t \in 1..reverseTok :
                \/ tokens[t] \in AccessLabels
                \/ /\ tokens[t] = "{"
                   /\ Cardinality({b \in t..reverseTok : tokens[b] = "{"})
                        - Cardinality({b \in (t + 1)..reverseTok : tokens[b] = "}"}) >= 1}))
        = "public:"

\* the diagnostics for the base class baseName of derivedClass, where
\* reverseTok is the token before the first "~ baseName (" that does not
\* follow "::" and base the nearest token from there back that is not a
\* name or is "virtual"
BaseDestructor(baseName, derivedClass, reverseTok, base) ==
    IF base = NULL
    THEN (IF findmatch(1, <<{"class"}, {baseName}, {"{"}>>, NULL) # NULL
          THEN <<virtualDestructorError(findmatch(1, <<{"class"}, {baseName}, {"{"}>>, NULL),
                                        baseName, str(derivedClass))>>
          ELSE <<>>)
    ELSE IF str(base) = "virtual" THEN <<>>
    ELSE IF findmatch(1, <<{"class"}, {baseName}, {"{"}>>, NULL) = NULL THEN <<>>
    ELSE IF DestructorIsPublic(reverseTok)
        THEN <<virtualDestructorError(base, baseName, str(derivedClass))>>
    ELSE <<>>

BaseClass(baseName, derivedClass, reverseTok) ==
    BaseDestructor(baseName, derivedClass, reverseTok,
                   Last({t \in 1..reverseTok : ~(isName(tokens[t]) /\ tokens[t] # "virtual")}))

\* "Iterate through each base class": derived is at the access specifier or
\* the name of a base class
RECURSIVE BaseClasses(_, _)
BaseClasses(derived, derivedClass) ==
    IF ~Match(derived, <<VAR>>) THEN <<>>
    ELSE (CHOOSE it \in {
            (IF str(derived) = "public"
             THEN BaseClass(str(name), derivedClass,
                            First({t \in 1..Len(tokens) :
                                     /\ Match(t, <<ANY, {"~"}, {str(name)}, {"("}>>)
                                     /\ tokens[t] # "::"}))
             ELSE <<>>)
            \o (IF stop = NULL \/ str(stop) = "{" THEN <<>>
                ELSE BaseClasses(next(stop), derivedClass))
          : name \in {IF Match(derived, <<{"public", "protected", "private"}>>)
                      THEN next(derived) ELSE derived},
            stop \in {First({t \in (IF Match(derived, <<{"public", "protected", "private"}>>)
                                     THEN derived + 1 ELSE derived)..Len(tokens) :
                                tokens[t] \in {"{", ","}})}} : TRUE)

\* the diagnostics for the "class %var% : %var%" at derived
DerivedClass(derived) ==
    IF \/ findmatch(1, <<{"~"}, {str(tokAt(derived, 1))}, {"("}, {")"}, {"{"}>>, NULL) = NULL
       \/ Match(findmatch(1, <<{"~"}, {str(tokAt(derived, 1))}, {"("}, {")"}, {"{"}>>, NULL),
                <<{"~"}, VAR, {"("}, {")"}, {"{"}, {"}"}>>)
    THEN <<>>
    ELSE BaseClasses(tokAt(derived, 3), tokAt(derived, 1))

\* the diagnostics for the classes declared in the tokens from..to
RECURSIVE virtualDestructor(_, _)
virtualDestructor(from, to) ==
    IF from > to THEN <<>>
    ELSE IF from = to
        THEN (IF Match(from, <<{"class"}, VAR, {":"}, VAR>>) THEN DerivedClass(from) ELSE <<>>)
    ELSE virtualDestructor(from, (from + to) \div 2)
         \o virtualDestructor((from + to) \div 2 + 1, to)

-----------------------------------------------------------------------------
(* CheckClass::checkConst: can a member function be const?  A base class    *)
(* name is the sequence of its tokens, as in SpaceInfo::derivedFrom.        *)

\* checkConstError for an inline function, checkConstError2 with the token
\* of the implementation and the token of the declaration for the others;
\* the diagnostic has the list of its tokens
checkConstError(tok, classname, funcname) ==
    Diagnostic(<<tok>>, "style", "functionConst", <<classname, funcname>>)

checkConstError2(tok1, tok2, classname, funcname) ==
    Diagnostic(<<tok1, tok2>>, "style", "functionConst", <<classname, funcname>>)

\* Token::varId of a name: not 0 if the name is declared as a variable
varId(tok) ==
    IF \E t \in 1..Len(tokens) :
          Match(t, <<TYPE, {str(tok)}, {";", ",", ")", "=", "["}>>) /\ isName(str(tok))
    THEN 1 ELSE 0

\* "find the base class": the class or struct token of the base class with
\* the name derivedFrom; a name with "::" is looked for as the empty name
BaseClassToken(derivedFrom) ==
    findmatch(IF tokens = <<>> THEN NULL ELSE 1,
              <<{"class", "struct"}>>
                \o (IF \E k \in 1..Len(derivedFrom) : derivedFrom[k] = "::"
                    THEN <<>> ELSE Lit(derivedFrom))
                \o <<{"{", ":"}>>, NULL)

\* the function declared virtual at the token "virtual" of a class body: is
\* it the function at functionToken, with the tokens of the return type
\* and the arguments of functionToken
VirtualMatches(virtual, functionToken) ==
    \E tok \in {First({n \in virtual..(Len(tokens) - 1) : tokens[n + 1] = "("})} :
        /\ tok # NULL
        /\ str(tok) = str(functionToken)
        /\ \A j \in 1..(tok - virtual - 1) : str(tokAt(tok, -j)) = str(tokAt(functionToken, -j))
        /\ argsMatch(tokAt(tok, 2), tokAt(functionToken, 2), <<>>, 0)

\* is the function at functionToken declared virtual in one of the classes
\* derivedFrom or in their base classes
RECURSIVE isVirtual(_, _)
isVirtual(derivedFrom, functionToken) ==
    \E i \in 1..Len(derivedFrom) :
    \E classToken \in {BaseClassToken(derivedFrom[i])} :
        /\ classToken # NULL
        /\ \E header \in {ClassHeader(classToken, <<>>)} :
              \/ \E virtual \in (header.classStart + 1)..(link(header.classStart) - 1) :
                    /\ tokens[virtual] = "virtual"
                    /\ \A o \in (header.classStart + 1)..(virtual - 1) :
                          tokens[o] \in {"{", "("} => tokLink[o] < virtual
                    /\ VirtualMatches(virtual, functionToken)
              \/ header.derivedFrom # <<>> /\ isVirtual(header.derivedFrom, functionToken)

\* the tokens a statement or an expression starts after
StatementStart == {"}", "{", ";", "public:", "protected:", "private:", "return", ":", "?"}

\* is the expression that ends at tok a member variable that is not mutable
RECURSIVE isMemberVar(_, _, _, _)
isMemberVar(classname, derivedFrom, varlist, tok) ==
    \E start \in {Last({t \in 1..tok : t = 1 \/ tokens[t - 1] \in StatementStart})} :
    \E name \in {IF Match(start, <<{"("}, {"*"}, VAR, {")"}, {"["}>>)
                 THEN start + 2 ELSE start} :
    \E member \in {IF str(name) = classname /\ str(next(name)) = "::"
                   THEN tokAt(name, 2) ELSE name} :
        IF \E t \in (start + 1)..tok : tokens[t - 1] = "*" /\ tokens[t] = "this" THEN TRUE
        ELSE IF str(start) = "this" THEN TRUE
        ELSE IF \E k \in 1..Len(varlist) : varlist[k].name = str(member)
            THEN ~varlist[First({k \in 1..Len(varlist) : varlist[k].name = str(member)})].isMutable
        ELSE \E i \in 1..Len(derivedFrom) :
             \E classToken \in {BaseClassToken(derivedFrom[i])} :
                /\ classToken # NULL
                /\ isMemberVar(str(next(classToken)), ClassHeader(classToken, <<>>).derivedFrom,
                               getVarList(classToken), start)

\* "assignment.. = += |= .."
IsAssignment(s) == s = "=" \/ (s \in EqualsSecond /\ s \notin AngleOrBang)

\* is tok1 a token of the body at which the walk ends with isconst = false
NotConstAt(classname, derivedFrom, varlist, tok1) ==
    /\ tokens[tok1] \notin {"{", "}"}
    /\ \/ /\ IsAssignment(tokens[tok1])
          /\ \/ varId(previous(tok1)) = 0 /\ derivedFrom # <<>>
             \/ isMemberVar(classname, derivedFrom, varlist, previous(tok1))
       \/ tokens[tok1] = "<<" /\ isMemberVar(classname, derivedFrom, varlist, previous(tok1))
       \/ tokens[tok1] \in {"++", "--"}
       \/ Match(tok1, <<VAR, {"("}>>) /\ tokens[tok1] \notin {"return", "c_str", "if"}
       \/ Match(tok1, <<VAR, {"<"}, ANY, {">"}, {"("}>>)
       \/ tokens[tok1] = "delete"

\* the walk from tok, the ")" of the arguments, up to the "}" that is found
\* at indentlevel 0 or 1: is there nothing that is not const
checkConstFunc(classname, derivedFrom, varlist, tok) ==
    \E end \in {First({k \in tok..Len(tokens) :
                         /\ tokens[k] = "}"
                         /\ Cardinality({b \in tok..k : tokens[b] = "{"})
                              - Cardinality({b \in tok..(k - 1) : tokens[b] = "}"}) <= 1})} :
        \A tok1 \in tok..(IF end = NULL THEN Len(tokens) ELSE end - 1) :
            ~NotConstAt(classname, derivedFrom, varlist, tok1)

\* "get last token of return type"
RECURSIVE ReturnTypeEnd(_)
ReturnTypeEnd(previous_) ==
    IF str(previous_) = "::" THEN ReturnTypeEnd(tokAt(previous_, -2)) ELSE previous_

\* the first token of the declaration that the token temp is in
DeclarationStart(temp) ==
    Last({t \in 2..temp : tokens[t - 1] \in {";", "}", "{", "public:", "protected:", "private:"}})

\* the return type is one that is checked: a pointer or reference in a
\* declaration that starts with const, a template of pointers or references
\* with a const before it, or a type that is no name in upper case
ReturnTypeChecked(func, previous_) ==
    IF Match(previous_, <<{"*", "&"}>>)
    THEN str(DeclarationStart(func.token - 1)) = "const"
    ELSE IF Match(previous(previous_), <<{"*", "&"}, {">"}>>)
    THEN \E t \in DeclarationStart(func.token - 1)..(func.token - 2) : tokens[t] = "const"
    ELSE ~(isName(str(previous_)) /\ str(previous_) \in UpperCaseNames)

\* the names of the scopes a scope is nested in, then its name
RECURSIVE NestedName(_, _)
NestedName(space, i) ==
    IF space[i].nest = NULL THEN <<space[i].className>>
    ELSE NestedName(space, space[i].nest) \o <<"::", space[i].className>>

\* the diagnostics for one function of the scope space[i]
CheckConstFunction(space, i, func) ==
    IF ~(/\ func.type = Function /\ func.hasBody /\ ~func.isFriend /\ ~func.isStatic
         /\ ~func.isConst /\ ~func.isVirtual)
    THEN <<>>
    ELSE IF ~ReturnTypeChecked(func, ReturnTypeEnd(IF isName(str(func.tokenDef))
                                                   THEN previous(func.token)
                                                   ELSE tokAt(func.token, -2)))
    THEN <<>>
    ELSE IF space[i].derivedFrom # <<>> /\ isVirtual(space[i].derivedFrom, func.token)
    THEN <<>>
    ELSE IF ~checkConstFunc(space[i].className, space[i].derivedFrom, space[i].varlist,
                            link(next(func.token)))
    THEN <<>>
    ELSE IF func.isInline
    THEN <<checkConstError(func.token, NestedName(space, i),
                           (IF isName(str(func.tokenDef)) THEN <<>> ELSE <<"operator">>)
                               \o <<str(func.tokenDef)>>)>>
    ELSE <<checkConstError2(func.token, func.tokenDef, NestedName(space, i),
                            (IF isName(str(func.tokenDef)) THEN <<>> ELSE <<"operator">>)
                                \o <<str(func.tokenDef)>>)>>

RECURSIVE CheckConstFunctions(_, _, _)
CheckConstFunctions(space, i, j) ==
    IF j > Len(space[i].functionList) THEN <<>>
    ELSE CheckConstFunction(space, i, space[i].functionList[j])
         \o CheckConstFunctions(space, i, j + 1)

RECURSIVE CheckConstLoop(_, _, _)
CheckConstLoop(space, mmap, k) ==
    IF k > Len(mmap) THEN <<>>
    ELSE CheckConstFunctions(space, mmap[k], 1) \o CheckConstLoop(space, mmap, k + 1)

\* The Var records that the getVarList calls of one isMemberVar call make:
\* isMemberVar builds the list of every base class it looks the name up in.
RECURSIVE isMemberVarVars(_, _, _, _)
RECURSIVE BaseClassVars(_, _, _)
isMemberVarVars(classname, derivedFrom, varlist, tok) ==
    \* the token the loop over the previous tokens stops at, and the name
    (CHOOSE it \in {(CHOOSE it \in {(CHOOSE it \in {
        IF \E t \in (start + 1)..tok : tokens[t - 1] = "*" /\ tokens[t] = "this" THEN 0
        ELSE IF str(start) = "this" THEN 0
        ELSE IF \E k \in 1..Len(varlist) : varlist[k].name = str(member) THEN 0
        ELSE BaseClassVars(derivedFrom, 1, start)
        : member \in {IF str(name) = classname /\ str(next(name)) = "::"
                      THEN tokAt(name, 2) ELSE name}} : TRUE)
        : name \in {IF Match(start, <<{"("}, {"*"}, VAR, {")"}, {"["}>>)
                    THEN start + 2 ELSE start}} : TRUE)
        : start \in {Last({t \in 1..tok : t = 1 \/ tokens[t - 1] \in StatementStart})}} : TRUE)

\* "check each base class", from the i-th on, until the name is found
BaseClassVars(derivedFrom, i, tok) ==
    IF i > Len(derivedFrom) THEN 0
    ELSE (CHOOSE it \in {
        IF classToken = NULL THEN BaseClassVars(derivedFrom, i + 1, tok)
        ELSE Len(getVarList(classToken))
             + isMemberVarVars(str(next(classToken)), ClassHeader(classToken, <<>>).derivedFrom,
                               getVarList(classToken), tok)
             + (IF isMemberVar(str(next(classToken)), ClassHeader(classToken, <<>>).derivedFrom,
                               getVarList(classToken), tok)
                THEN 0 ELSE BaseClassVars(derivedFrom, i + 1, tok))
        : classToken \in {BaseClassToken(derivedFrom[i])}} : TRUE)

\* does the walk of checkConstFunc call isMemberVar at tok1
CallsIsMemberVar(derivedFrom, tok1) ==
    /\ tokens[tok1] \notin {"{", "}"}
    /\ \/ IsAssignment(tokens[tok1]) /\ ~(varId(previous(tok1)) = 0 /\ derivedFrom # <<>>)
       \/ tokens[tok1] = "<<"

\* the Var records made while the walk of checkConstFunc is in from..to
RECURSIVE WalkVars(_, _, _, _, _)
WalkVars(classname, derivedFrom, varlist, from, to) ==
    IF from > to THEN 0
    ELSE IF from = to
        THEN (IF CallsIsMemberVar(derivedFrom, from)
              THEN isMemberVarVars(classname, derivedFrom, varlist, previous(from)) ELSE 0)
    ELSE WalkVars(classname, derivedFrom, varlist, from, (from + to) \div 2)
         + WalkVars(classname, derivedFrom, varlist, (from + to) \div 2 + 1, to)

\* the Var records made by checkConstFunc: the walk goes from tok to the
\* "}" it ends at or to the first token at which it breaks
checkConstFuncVars(classname, derivedFrom, varlist, tok) ==
    (CHOOSE it \in {(CHOOSE it \in {
        WalkVars(classname, derivedFrom, varlist, tok, IF stop = NULL THEN last ELSE stop)
        : stop \in {First({tok1 \in tok..last :
                              NotConstAt(classname, derivedFrom, varlist, tok1)})}} : TRUE)
        : last \in {(CHOOSE it \in {IF end = NULL THEN Len(tokens) ELSE end - 1
            : end \in {First({k \in tok..Len(tokens) :
                         /\ tokens[k] = "}"
                         /\ Cardinality({b \in tok..k : tokens[b] = "{"})
                              - Cardinality({b \in tok..(k - 1) : tokens[b] = "}"}) <= 1})}} : TRUE)}} : TRUE)

\* the Var records made for one function of the scope space[i]
CheckConstFunctionVars(space, i, func) ==
    IF ~(/\ func.type = Function /\ func.hasBody /\ ~func.isFriend /\ ~func.isStatic
         /\ ~func.isConst /\ ~func.isVirtual)
    THEN 0
    ELSE IF ~ReturnTypeChecked(func, ReturnTypeEnd(IF isName(str(func.tokenDef))
                                                   THEN previous(func.token)
                                                   ELSE tokAt(func.token, -2)))
    THEN 0
    ELSE IF space[i].derivedFrom # <<>> /\ isVirtual(space[i].derivedFrom, func.token)
    THEN 0
    ELSE checkConstFuncVars(space[i].className, space[i].derivedFrom, space[i].varlist,
                            link(next(func.token)))

RECURSIVE CheckConstFunctionsVars(_, _, _)
CheckConstFunctionsVars(space, i, j) ==
    IF j > Len(space[i].functionList) THEN 0
    ELSE CheckConstFunctionVars(space, i, space[i].functionList[j])
         + CheckConstFunctionsVars(space, i, j + 1)

\* the Var records that checkConst makes and keeps no pointer to
RECURSIVE CheckConstVars(_, _, _)
CheckConstVars(space, mmap, k) ==
    IF k > Len(mmap) THEN 0
    ELSE CheckConstFunctionsVars(space, mmap[k], 1) + CheckConstVars(space, mmap, k + 1)

-----------------------------------------------------------------------------
(* CheckClass::noMemset: memset, memcpy and memmove on a class or struct    *)
(* that holds a std:: variable.                                             *)

memsetStructError(tok, memfunc, classname) ==
    Diagnostic(tok, "error", "memsetStruct", <<memfunc, classname>>)

\* the type whose size the call at tok passes ("": the tokens didn't match)
MemsetType(tok) ==
    IF Match(tok, <<{"memset"}, {"("}, VAR, {","}, {"%num%"}, {","}, {"sizeof"}, {"("},
                    TYPE, {")"}, {")"}>>)
        THEN str(tokAt(tok, 8))
    ELSE IF Match(tok, <<{"memset"}, {"("}, {"&"}, VAR, {","}, {"%num%"}, {","}, {"sizeof"},
                         {"("}, TYPE, {")"}, {")"}>>)
        THEN str(tokAt(tok, 9))
    ELSE IF Match(tok, <<{"memset"}, {"("}, VAR, {","}, {"%num%"}, {","}, {"sizeof"}, {"("},
                         {"struct"}, TYPE, {")"}, {")"}>>)
        THEN str(tokAt(tok, 9))
    ELSE IF Match(tok, <<{"memset"}, {"("}, {"&"}, VAR, {","}, {"%num%"}, {","}, {"sizeof"},
                         {"("}, {"struct"}, TYPE, {")"}, {")"}>>)
        THEN str(tokAt(tok, 10))
    ELSE IF Match(tok, <<TYPE, {"("}, VAR, {","}, VAR, {","}, {"sizeof"}, {"("}, TYPE,
                         {")"}, {")"}>>)
        THEN str(tokAt(tok, 8))
    ELSE ""

\* "check if it's a pointer variable..": the ">" the loop breaks at, NULL
\* if the tokens end first
RECURSIVE TemplateClose(_, _)
TemplateClose(tstruct, level) ==
    (CHOOSE it \in {
        IF t = NULL THEN NULL
        ELSE IF str(t) = "<" THEN TemplateClose(t, level + 1)
        ELSE IF str(t) = ">" THEN (IF level <= 1 THEN t ELSE TemplateClose(t, level - 1))
        ELSE IF str(t) = "(" THEN TemplateClose(link(t), level)
        ELSE TemplateClose(t, level)
        : t \in {next(tstruct)}} : TRUE)

\* One round of the loop over the tokens of the struct for the call at
\* tok.  The state of the loop is <<ended, tstruct, the diagnostics>>.
MemsetStructStep(tok, tstruct, reported) ==
    IF tstruct = NULL \/ str(tstruct) = "}" THEN <<TRUE, tstruct, reported>>
    ELSE (CHOOSE it \in {
        IF round[1] = NULL THEN <<TRUE, NULL, round[2]>>
        ELSE <<FALSE, next(round[1]), round[2]>>
        \* a round is <<the token it ends at, the diagnostics>>
        : round \in {(CHOOSE it \in {
            IF t = NULL THEN <<NULL, reported>>
            ELSE IF ~Match(t, <<{";", "{", "}"}>>) /\ str(t) \notin ColonTokens
                THEN <<t, reported>>
            ELSE IF Match(next(t), <<{"std"}, {"::"}, TYPE, VAR, {";"}>>)
                THEN <<t, Append(reported, memsetStructError(tok, str(tok), str(tokAt(t, 3))))>>
            ELSE IF Match(next(t), <<{"std"}, {"::"}, TYPE, {"<"}>>)
                THEN (CHOOSE it \in {
                        IF close # NULL /\ Match(close, <<{">"}, VAR, {";"}>>)
                        THEN <<close, Append(reported,
                                   memsetStructError(tok, str(tok), str(tokAt(t, 3))))>>
                        ELSE <<close, reported>>
                        : close \in {TemplateClose(t, 0)}} : TRUE)
            ELSE <<t, reported>>
            \* "struct with function? skip function body.."
            : t \in {IF simpleMatch(tstruct, <<")", "{">>) THEN link(next(tstruct))
                     ELSE tstruct}} : TRUE)}} : TRUE)

\* the state of the loop after n rounds or more, or at its end
RECURSIVE MemsetStructLoop(_, _, _)
MemsetStructLoop(tok, st, n) ==
    CASE st[1] -> st
      [] ~st[1] /\ n <= 1 -> MemsetStructStep(tok, st[2], st[3])
      [] OTHER ->
            CHOOSE end \in
              {MemsetStructLoop(tok, c, (n + 3) \div 4) : c \in
              {MemsetStructLoop(tok, b, (n + 3) \div 4) : b \in
              {MemsetStructLoop(tok, a, (n + 3) \div 4) : a \in
              {MemsetStructLoop(tok, st, (n + 3) \div 4)}}}} : TRUE

\* the diagnostics of noMemset for the token tok
MemsetCall(tok) ==
    IF ~Match(tok, <<{"memset", "memcpy", "memmove"}>>) \/ MemsetType(tok) = "" THEN <<>>
    ELSE MemsetStructLoop(tok,
            <<FALSE,
              findmatch(IF tokens = <<>> THEN NULL ELSE 1,
                        <<{"struct", "class"}, {MemsetType(tok)}, {"{"}>>, NULL),
              <<>>>>,
            Len(tokens) + 1)[3]

\* the loop over the tokens: the diagnostics for the tokens from..to
RECURSIVE noMemset(_, _)
noMemset(from, to) ==
    IF from > to THEN <<>>
    ELSE IF from = to THEN MemsetCall(from)
    ELSE noMemset(from, (from + to) \div 2) \o noMemset((from + to) \div 2 + 1, to)

-----------------------------------------------------------------------------
(* The token lists the checks are run on.                                   *)

RECURSIVE Concat(_)
Concat(seqs) == IF seqs = <<>> THEN <<>> ELSE Head(seqs) \o Concat(Tail(seqs))

\* the sequences of 0..n elements of S
SeqsUpTo(S, n) == UNION {[1..k -> S] : k \in 0..n}

ClassOf(head, name, body) == <<head, name, "{">> \o body \o <<"}", ";">>

\* member function declarations of a class A
FunctionMembers ==
    {<<"A", "(", ")", "{", "}">>,
     <<"A", "(", ")", ";">>,
     <<"A", "(", "const", "A", "&", "a", ")", ";">>,
     <<"void", "f", "(", "int", "a", ")", ";">>,
     <<"void", "f", "(", ")", "const", ";">>,
     <<"virtual", "void", "g", "(", ")", "=", "0", ";">>,
     <<"void", "g", "(", ")", "=", "delete", ";">>,
     <<"struct", "B", "{", "B", "(", ")", "{", "}", "}", ";">>,
     <<"A", "&", "operator", "=", "(", "const", "A", "&", "a", ")",
       "{", "return", "*", "this", ";", "}">>,
     <<"public:">>,
     <<"void", "operator", "=", "(", "const", "A", "&", "a", ")", ";">>}

\* the code that follows the class
Trailers ==
    {<<>>,
     <<"A", "::", "A", "(", ")", "{", "}",
       "void", "A", "::", "f", "(", "int", "b", ")", "{", "}">>,
     <<"int", "h", "(", ")", "{", "}", "int", "g", "(", ")", "{", "}">>,
     <<"void", "A", "::", "operator", "=", "(", "const", "A", "&", "a", ")", "{", "}">>,
     <<"void", "A", "::", "f", "(", ")", "const", "{", "}",
       "void", "A", "::", "f", "(", "int", "b", ")", "{", "}">>,
     <<"void", "N", "::", "A", "::", "f", "(", ")", "{", "}",
       "void", "A", "::", "f", "(", ")", "{", "}">>}

FunctionPrograms ==
    {ClassOf("class", "A", Concat(body)) \o trailer :
        body \in SeqsUpTo(FunctionMembers, MaxMembers) \ {<<>>}, trailer \in Trailers}

\* member variable declarations and access labels of a class A
VariableMembers ==
    {<<"int", "x", ";">>,
     <<"int", "y", ";">>,
     <<"static", "int", "s", ";">>,
     <<"std", "::", "string", "t", ";">>,
     <<"private:">>,
     <<"public:">>}

\* the constructors and assignment operators of a class A
ConstructorMembers ==
    {<<>>,
     <<"public:", "A", "(", ")", "{", "}">>,
     <<"private:", "A", "(", ")", "{", "}">>,
     <<"public:", "A", "(", ")", ":", "y", "(", "0", ")", "{", "init", "(", ")", ";", "}",
       "void", "init", "(", ")", "{", "x", "=", "0", ";", "}">>,
     <<"public:", "A", "(", "const", "A", "&", "a", ")", "{", "x", "=", "a", ".", "x", ";", "}">>,
     <<"public:", "A", "(", ")", "{", "x", "=", "0", ";", "}",
       "A", "(", "const", "A", "&", "a", ")", "{", "}">>,
     <<"public:", "void", "operator", "=", "(", "int", "a", ")", "{", "A", "b", ";", "}">>,
     <<"private:", "A", "&", "operator", "=", "(", "const", "A", "&", "a", ")",
       "{", "y", "=", "a", ".", "y", ";", "}">>}

VariablePrograms ==
    {ClassOf(head, "A", Concat(body) \o ctor) :
        head \in {"class", "struct"},
        body \in SeqsUpTo(VariableMembers, MaxMembers),
        ctor \in ConstructorMembers}

\* a class with an uninitialized member and an operator= that returns void
ReportedClass(name) ==
    <<"int", "x", ";", "public:", name, "(", ")", "{", "}",
      "void", "operator", "=", "(", "const", name, "&", "a", ")", "{", "}">>

ScopeNames == {"A", "B", "C"}

ScopePrograms ==
    {ClassOf("class", n1, ReportedClass(n1)) \o ClassOf("class", n2, ReportedClass(n2)) :
        n1 \in ScopeNames, n2 \in ScopeNames}
    \cup
    {ClassOf("class", n1, ReportedClass(n1) \o ClassOf("class", n2, ReportedClass(n2))) :
        n1 \in ScopeNames, n2 \in ScopeNames}
    \cup
    {ClassOf("namespace", "N", ClassOf("class", n1, ReportedClass(n1)))
        \o ClassOf("class", n2, ReportedClass(n2)) :
        n1 \in ScopeNames, n2 \in ScopeNames}

\* the bodies of an operator= of a class A with the members p and x
OperatorBodies ==
    {<<>>,
     <<"return", "*", "this", ";">>,
     <<"return", "(", "*", "this", ")", ";">>,
     <<"return", "(", "A", "&", ")", "*", "this", ";">>,
     <<"return", "a", ";">>,
     <<"return", "*", "this", "+=", "a", ";">>,
     <<"return", "operator", "=", "(", "a", ")", ";">>,
     <<"if", "(", "x", ")", "return", "a", ";", "return", "*", "this", ";">>,
     <<"if", "(", "x", ")", "return", "a", ";", "return", "a", ";">>}

\* what stands before the operator= in the class
OperatorPrefixes ==
    {<<>>, <<"public:">>, <<"private:">>, <<"int", "x", ";">>, <<"virtual">>}

OperatorPrograms ==
    {ClassOf(head, "A",
             prefix \o <<"A", "&", "operator", "=", "(", "const", "A", "&", "a", ")", "{">>
                    \o body \o <<"}">>) :
        head \in {"class", "struct"}, prefix \in OperatorPrefixes, body \in OperatorBodies}

Programs == FunctionPrograms \cup VariablePrograms \cup ScopePrograms \cup OperatorPrograms

-----------------------------------------------------------------------------
(* The CheckClass instance and its operations.                              *)

\* CheckClass::CheckClass(tokenizer, settings, errorLogger)
Init ==
    /\ tokens \in Programs
    /\ tokLink = Links(tokens)
    /\ fileIndex = SourceFile(tokens)
    /\ checkCodingStyle \in BOOLEAN
    /\ inconclusive = FALSE /\ ifcfg = FALSE
    /\ hasSymbolDatabase = FALSE
    /\ spaceInfo = <<>>
    /\ spaceInfoMMap = <<>>
    /\ errors = <<>>
    /\ aborted = FALSE
    /\ declared = <<>>
    /\ lastOp = "none"
    /\ dbCalls = 0
    /\ heap = NoObjects
    /\ analysis = NoAnalysis
    /\ amParams = <<>> /\ amFirst = NULL /\ amSecond = NULL /\ amPath = <<>>
    /\ amDepth = 0 /\ amResult = "none"

\* the members after an operation that called createSymbolDatabase
SetMembers(db) ==
    /\ hasSymbolDatabase' = db.hasSymbolDatabase
    /\ spaceInfo' = db.space
    /\ spaceInfoMMap' = db.mmap
    /\ aborted' = db.aborted
    /\ declared' = db.declared

\* CheckClass::constructors
Constructors ==
    /\ ~aborted /\ lastOp # "destroyed"
    /\ dbCalls < MaxDbCalls
    /\ lastOp' = "constructors"
    /\ IF ~checkCodingStyle
       THEN /\ errors' = <<>>
            /\ UNCHANGED <<hasSymbolDatabase, spaceInfo, spaceInfoMMap, aborted, declared,
                           dbCalls, heap>>
       ELSE \E db \in {createSymbolDatabase(Members)} :
                /\ dbCalls' = dbCalls + 1
                /\ heap' = Allocated(heap, db)
                /\ IF db.aborted
                   THEN errors' = <<>> /\ SetMembers(db)
                   ELSE \E done \in {ConstructorsLoop(db.space, db.mmap, 1, <<>>)} :
                            /\ errors' = done.errors
                            /\ SetMembers([db EXCEPT !.space = done.space])
    /\ UNCHANGED <<analysis, tokens, tokLink, fileIndex, checkCodingStyle, inconclusive, ifcfg, amParams, amFirst, amSecond, amPath,
                   amDepth, amResult>>

\* CheckClass::operatorEq
OperatorEq ==
    /\ ~aborted /\ lastOp # "destroyed"
    /\ dbCalls < MaxDbCalls
    /\ lastOp' = "operatorEq"
    /\ IF ~checkCodingStyle
       THEN /\ errors' = <<>>
            /\ UNCHANGED <<hasSymbolDatabase, spaceInfo, spaceInfoMMap, aborted, declared,
                           dbCalls, heap>>
       ELSE \E db \in {createSymbolDatabase(Members)} :
                /\ dbCalls' = dbCalls + 1
                /\ heap' = Allocated(heap, db)
                /\ SetMembers(db)
                /\ errors' = IF db.aborted THEN <<>> ELSE OperatorEqLoop(db.space, db.mmap, 1)
    /\ UNCHANGED <<analysis, tokens, tokLink, fileIndex, checkCodingStyle, inconclusive, ifcfg, amParams, amFirst, amSecond, amPath,
                   amDepth, amResult>>

\* CheckClass::operatorEqRetRefThis
OperatorEqRetRefThis ==
    /\ ~aborted /\ lastOp # "destroyed"
    /\ dbCalls < MaxDbCalls
    /\ lastOp' = "operatorEqRetRefThis"
    /\ IF ~checkCodingStyle
       THEN /\ errors' = <<>>
            /\ UNCHANGED <<hasSymbolDatabase, spaceInfo, spaceInfoMMap, aborted, declared,
                           dbCalls, heap>>
       ELSE \E db \in {createSymbolDatabase(Members)} :
                /\ dbCalls' = dbCalls + 1
                /\ heap' = Allocated(heap, db)
                /\ SetMembers(db)
                /\ errors' = IF db.aborted THEN <<>>
                             ELSE RetRefThisLoop(db.space, db.mmap, 1)
    /\ UNCHANGED <<analysis, tokens, tokLink, fileIndex, checkCodingStyle, inconclusive, ifcfg, amParams, amFirst, amSecond, amPath,
                   amDepth, amResult>>

\* CheckClass::checkConst
CheckConst ==
    /\ ~aborted /\ lastOp # "destroyed"
    /\ dbCalls < MaxDbCalls
    /\ lastOp' = "checkConst"
    /\ IF ~checkCodingStyle \/ ifcfg
       THEN /\ errors' = <<>>
            /\ UNCHANGED <<hasSymbolDatabase, spaceInfo, spaceInfoMMap, aborted, declared,
                           dbCalls, heap>>
       ELSE \E db \in {createSymbolDatabase(Members)} :
                /\ dbCalls' = dbCalls + 1
                /\ heap' = [Allocated(heap, db) EXCEPT !.Var = @ +
                              IF db.aborted THEN 0 ELSE CheckConstVars(db.space, db.mmap, 1)]
                /\ SetMembers(db)
                /\ errors' = IF db.aborted THEN <<>> ELSE CheckConstLoop(db.space, db.mmap, 1)
    /\ UNCHANGED <<analysis, tokens, tokLink, fileIndex, checkCodingStyle, inconclusive, ifcfg, amParams, amFirst,
                   amSecond, amPath, amDepth, amResult>>

Next == Constructors \/ OperatorEq \/ OperatorEqRetRefThis \/ CheckConst

Spec == Init /\ [][Next]_vars

\* the entries of spaceInfoMMap from the k-th on name an object twice
RECURSIVE ReleasedTwice(_, _)
ReleasedTwice(mmap, k) ==
    IF k > Len(mmap) THEN FALSE
    ELSE (\E l \in (k + 1)..Len(mmap) : mmap[l] = mmap[k]) \/ ReleasedTwice(mmap, k + 1)

\* the Var records that the destructor deletes for the entries from the k-th on
RECURSIVE ReleasedVars(_, _, _)
ReleasedVars(space, mmap, k) ==
    IF k > Len(mmap) THEN 0
    ELSE Len(space[mmap[k]].varlist) + ReleasedVars(space, mmap, k + 1)

\* CheckClass::~CheckClass
Destroy ==
    /\ ~aborted /\ lastOp \notin {"none", "destroyed"}
    /\ lastOp' = "destroyed"
    /\ heap' = [SpaceInfo |-> heap.SpaceInfo - Len(spaceInfoMMap),
                Var |-> heap.Var - ReleasedVars(spaceInfo, spaceInfoMMap, 1),
                releasedTwice |-> ReleasedTwice(spaceInfoMMap, 1)]
    /\ UNCHANGED <<analysis, tokens, tokLink, fileIndex, checkCodingStyle, inconclusive, ifcfg,
                   hasSymbolDatabase, spaceInfo, spaceInfoMMap, errors, aborted, declared,
                   dbCalls, amParams, amFirst, amSecond, amPath, amDepth, amResult>>

-----------------------------------------------------------------------------
(* CheckClass::argsMatch on the argument lists of a declaration in the      *)
(* class and of an implementation after it.  A parameter is written from    *)
(* its type, its name on either side ("" if the side omits it), the default *)
(* value of the declaration ("" if none) and whether the implementation     *)
(* writes the type with the class path.                                     *)

ParamTypes == {<<"int">>, <<"T">>, <<"const", "A", "&">>}

\* the class paths createSymbolDatabase builds for a class A and for a
\* class A in a namespace N
ClassPaths == {<<>>, <<"A", "::">>, <<"N", "::", "A", "::">>}

Parameters(path) ==
    {[type |-> type, first |-> first, second |-> second, value |-> value,
      qualified |-> qualified] :
        type \in ParamTypes, first \in {"", "a"}, second \in {"", "a", "b"},
        value \in {"", "5"}, qualified \in BOOLEAN}
    \ {p \in [type : ParamTypes, first : {"", "a"}, second : {"", "a", "b"},
               value : {"", "5"}, qualified : {TRUE}] :
            path = <<>> \/ p.type # <<"T">>}

\* the tokens of the parameters between "(" and ")": on the side of the
\* declaration (isFirst) or of the implementation
RECURSIVE ArgumentList(_, _, _)
ArgumentList(params, path, isFirst) ==
    IF params = <<>> THEN <<>>
    ELSE (IF ~isFirst /\ Head(params).qualified THEN path ELSE <<>>)
         \o Head(params).type
         \o (IF isFirst
             THEN (IF Head(params).first = "" THEN <<>> ELSE <<Head(params).first>>)
                  \o (IF Head(params).value = "" THEN <<>> ELSE <<"=", Head(params).value>>)
             ELSE (IF Head(params).second = "" THEN <<>> ELSE <<Head(params).second>>))
         \o (IF Tail(params) = <<>> THEN <<>> ELSE <<",">>)
         \o ArgumentList(Tail(params), path, isFirst)

\* the declaration "void f ( ... ) ;" and the implementation
\* "void <path> f ( ... ) { }"
InitArgs ==
    /\ amPath \in ClassPaths
    /\ amParams \in SeqsUpTo(Parameters(amPath), MaxParams)
    /\ amDepth = Len(amPath) \div 2
    /\ tokens = <<"void", "f", "(">> \o ArgumentList(amParams, amPath, TRUE)
                 \o <<")", ";", "void">> \o amPath \o <<"f", "(">>
                 \o ArgumentList(amParams, amPath, FALSE) \o <<")", "{", "}">>
    /\ tokLink = Links(tokens)
    /\ fileIndex = SourceFile(tokens)
    \* funcArgs = function.tokenDef->tokAt(2) and found->tokAt(2)
    /\ amFirst = tokAt(2, 2)
    /\ amSecond = tokAt(Len(ArgumentList(amParams, amPath, TRUE)) + Len(amPath) + 7, 2)
    /\ amResult = "none"
    /\ lastOp = "none"
    /\ checkCodingStyle = TRUE
    /\ inconclusive = FALSE /\ ifcfg = FALSE
    /\ hasSymbolDatabase = FALSE
    /\ spaceInfo = <<>>
    /\ spaceInfoMMap = <<>>
    /\ errors = <<>>
    /\ aborted = FALSE
    /\ declared = <<>>
    /\ dbCalls = 0
    /\ heap = NoObjects
    /\ analysis = NoAnalysis

\* argsMatch(funcArgs, found->tokAt(2), classPath, depth)
ArgsMatch ==
    /\ lastOp = "none"
    /\ lastOp' = "argsMatch"
    /\ amResult' = argsMatch(amFirst, amSecond, amPath, amDepth)
    /\ UNCHANGED <<analysis, heap, tokens, tokLink, fileIndex, checkCodingStyle, inconclusive, ifcfg, hasSymbolDatabase, spaceInfo,
                   spaceInfoMMap, errors, aborted, declared, dbCalls, amParams, amFirst,
                   amSecond, amPath, amDepth>>

\* argsMatch with the two argument lists exchanged
ArgsMatchSwapped ==
    /\ lastOp = "none"
    /\ lastOp' = "argsMatchSwapped"
    /\ amResult' = argsMatch(amSecond, amFirst, amPath, amDepth)
    /\ UNCHANGED <<analysis, heap, tokens, tokLink, fileIndex, checkCodingStyle, inconclusive, ifcfg, hasSymbolDatabase, spaceInfo,
                   spaceInfoMMap, errors, aborted, declared, dbCalls, amParams, amFirst,
                   amSecond, amPath, amDepth>>

NextArgs == ArgsMatch \/ ArgsMatchSwapped

SpecArgs == InitArgs /\ [][NextArgs]_vars

-----------------------------------------------------------------------------
(* CheckClass::noMemset on a class or struct A and the calls that follow    *)
(* it.                                                                      *)

\* members of the class A
MemsetMembers ==
    {<<"int", "x", ";">>,
     <<"std", "::", "string", "s", ";">>,
     <<"std", "::", "vector", "<", "int", ">", "v", ";">>,
     <<"std", "::", "string", "*", "p", ";">>,
     <<"public:">>,
     <<"void", "f", "(", ")", "{", "std", "::", "string", "t", ";", "}">>,
     <<"void", "g", "(", ")", "const", "{", "std", "::", "string", "t", ";", "}">>}

\* calls whose size argument is sizeof(A)
MemsetCalls ==
    {<<"memset", "(", "&", "a", ",", "0", ",", "sizeof", "(", "A", ")", ")", ";">>,
     <<"memset", "(", "a", ",", "0", ",", "sizeof", "(", "struct", "A", ")", ")", ";">>,
     <<"memcpy", "(", "a", ",", "b", ",", "sizeof", "(", "A", ")", ")", ";">>,
     <<"memmove", "(", "a", ",", "b", ",", "sizeof", "(", "A", ")", ")", ";">>,
     <<"memcpy", "(", "&", "a", ",", "&", "b", ",", "sizeof", "(", "A", ")", ")", ";">>}

MemsetPrograms ==
    {ClassOf(head, "A", Concat(body)) \o <<"void", "h", "(", ")", "{">> \o call \o <<"}">> :
        head \in {"class", "struct"},
        body \in SeqsUpTo(MemsetMembers, MaxMembers),
        call \in MemsetCalls}

InitMemset ==
    /\ tokens \in MemsetPrograms
    /\ tokLink = Links(tokens)
    /\ fileIndex = SourceFile(tokens)
    /\ checkCodingStyle \in BOOLEAN
    /\ inconclusive = FALSE /\ ifcfg = FALSE
    /\ hasSymbolDatabase = FALSE
    /\ spaceInfo = <<>>
    /\ spaceInfoMMap = <<>>
    /\ errors = <<>>
    /\ aborted = FALSE
    /\ declared = <<>>
    /\ lastOp = "none"
    /\ dbCalls = 0
    /\ heap = NoObjects
    /\ analysis = NoAnalysis
    /\ amParams = <<>> /\ amFirst = NULL /\ amSecond = NULL /\ amPath = <<>>
    /\ amDepth = 0 /\ amResult = "none"

\* CheckClass::noMemset
NoMemset ==
    /\ ~aborted /\ lastOp # "destroyed"
    /\ lastOp' = "noMemset"
    /\ errors' = noMemset(1, Len(tokens))
    /\ UNCHANGED <<analysis, heap, tokens, tokLink, fileIndex, checkCodingStyle, inconclusive, ifcfg, hasSymbolDatabase, spaceInfo,
                   spaceInfoMMap, aborted, declared, dbCalls, amParams, amFirst,
                   amSecond, amPath, amDepth, amResult>>

NextMemset == NoMemset

SpecMemset == InitMemset /\ [][NextMemset]_vars

-----------------------------------------------------------------------------
(* CheckClass::operatorEqToSelf on a class A with an operator=, inline or   *)
(* defined after the class.                                                 *)

\* the statements of the body of the operator=
ToSelfStatements ==
    {<<"delete", "p", ";">>,
     <<"p", "=", "new", "int", ";">>,
     <<"free", "(", "p", ")", ";">>,
     <<"p", "=", "0", ";">>,
     <<"delete", "[", "]", "p", ";">>,
     <<"p", "=", "new", "int", "[", "5", "]", ";">>,
     <<"delete", "q", ";">>,
     <<"if", "(", "x", ")", "{", "y", "=", "0", ";", "}", "delete", "p", ";">>}

\* what the body starts with: a check for assignment to self or none
ToSelfGuards ==
    {<<>>,
     <<"if", "(", "this", "==", "&", "a", ")", "{", "return", "*", "this", ";", "}">>,
     <<"if", "(", "&", "a", "!=", "this", ")", "{", "x", "=", "0", ";", "}">>,
     <<"if", "(", "this", "==", "&", "b", ")", "{", "return", "*", "this", ";", "}">>}

\* the class headers: no base class, one, two
ToSelfHeaders ==
    {<<"class", "A">>,
     <<"class", "A", ":", "public", "B">>,
     <<"class", "A", ":", "public", "B", ",", "public", "C">>}

ToSelfPrograms ==
    {header \o <<"{", "A", "&", "operator", "=", "(", "const", "A", "&", "a", ")">>
        \o (IF inline THEN <<>>
            ELSE <<";", "}", ";", "A", "&", "A", "::", "operator", "=", "(", "const", "A",
                   "&", "a", ")">>)
        \o <<"{">> \o guard \o Concat(body) \o <<"return", "*", "this", ";", "}">>
        \o (IF inline THEN <<"}", ";">> ELSE <<>>) :
        header \in ToSelfHeaders, inline \in BOOLEAN, guard \in ToSelfGuards,
        body \in SeqsUpTo(ToSelfStatements, MaxMembers)}
    \cup {<<"A", "&", "operator", "=", "(", "const", "A", "&", "a", ")",
            "{", "return", "*", "this", ";", "}">>}

InitToSelf ==
    /\ tokens \in ToSelfPrograms
    /\ tokLink = Links(tokens)
    /\ fileIndex = SourceFile(tokens)
    /\ checkCodingStyle \in BOOLEAN
    /\ inconclusive = FALSE /\ ifcfg = FALSE
    /\ hasSymbolDatabase = FALSE
    /\ spaceInfo = <<>>
    /\ spaceInfoMMap = <<>>
    /\ errors = <<>>
    /\ aborted = FALSE
    /\ declared = <<>>
    /\ lastOp = "none"
    /\ dbCalls = 0
    /\ heap = NoObjects
    /\ analysis = NoAnalysis
    /\ amParams = <<>> /\ amFirst = NULL /\ amSecond = NULL /\ amPath = <<>>
    /\ amDepth = 0 /\ amResult = "none"

\* CheckClass::operatorEqToSelf
OperatorEqToSelf ==
    /\ ~aborted /\ lastOp # "destroyed"
    /\ lastOp' = "operatorEqToSelf"
    /\ IF ~checkCodingStyle
       THEN errors' = <<>> /\ aborted' = FALSE
       ELSE /\ aborted' = \E tok \in 1..Len(tokens) : ToSelf(tok) = "crash"
            /\ errors' = operatorEqToSelf(1, Len(tokens))
    /\ UNCHANGED <<analysis, heap, tokens, tokLink, fileIndex, checkCodingStyle, inconclusive, ifcfg, hasSymbolDatabase, spaceInfo,
                   spaceInfoMMap, declared, dbCalls, amParams, amFirst, amSecond, amPath,
                   amDepth, amResult>>

NextToSelf == OperatorEqToSelf

SpecToSelf == InitToSelf /\ [][NextToSelf]_vars

-----------------------------------------------------------------------------
(* CheckClass::virtualDestructor on a base class B and a class D derived    *)
(* from it.                                                                 *)

\* what stands in the body of B before its destructor
BaseMembers ==
    {<<"public:">>, <<"protected:">>, <<"private:">>, <<"int", "x", ";">>,
     <<"void", "f", "(", ")", "{", "}">>}

\* the destructor of B: none, plain, virtual
BaseDestructors ==
    {<<>>, <<"~", "B", "(", ")", "{", "}">>, <<"virtual", "~", "B", "(", ")", "{", "}">>}

\* the base classes of D
DerivedFrom ==
    {<<"public", "B">>, <<"protected", "B">>, <<"private", "B">>, <<"B">>,
     <<"public", "C", ",", "public", "B">>}

\* the destructor of D: none, empty, not empty
DerivedDestructors ==
    {<<>>, <<"~", "D", "(", ")", "{", "}">>,
     <<"~", "D", "(", ")", "{", "x", "=", "0", ";", "}">>}

DestructorPrograms ==
    {<<kw, "B", "{">> \o Concat(members) \o dtor \o <<"}", ";">>
        \o <<"class", "D", ":">> \o from \o <<"{", "public:">> \o ddtor \o <<"}", ";">> :
        kw \in {"class", "struct"}, members \in SeqsUpTo(BaseMembers, MaxMembers),
        dtor \in BaseDestructors, from \in DerivedFrom, ddtor \in DerivedDestructors}

InitDestructor ==
    /\ tokens \in DestructorPrograms
    /\ tokLink = Links(tokens)
    /\ fileIndex = SourceFile(tokens)
    /\ checkCodingStyle = TRUE
    /\ inconclusive \in BOOLEAN /\ ifcfg = FALSE
    /\ hasSymbolDatabase = FALSE
    /\ spaceInfo = <<>>
    /\ spaceInfoMMap = <<>>
    /\ errors = <<>>
    /\ aborted = FALSE
    /\ declared = <<>>
    /\ lastOp = "none"
    /\ dbCalls = 0
    /\ heap = NoObjects
    /\ analysis = NoAnalysis
    /\ amParams = <<>> /\ amFirst = NULL /\ amSecond = NULL /\ amPath = <<>>
    /\ amDepth = 0 /\ amResult = "none"

\* CheckClass::virtualDestructor
VirtualDestructor ==
    /\ ~aborted /\ lastOp # "destroyed"
    /\ lastOp' = "virtualDestructor"
    /\ errors' = IF ~inconclusive THEN <<>> ELSE virtualDestructor(1, Len(tokens))
    /\ UNCHANGED <<analysis, heap, tokens, tokLink, fileIndex, checkCodingStyle, inconclusive, ifcfg, hasSymbolDatabase,
                   spaceInfo, spaceInfoMMap, aborted, declared, dbCalls, amParams, amFirst,
                   amSecond, amPath, amDepth, amResult>>

NextDestructor == VirtualDestructor

SpecDestructor == InitDestructor /\ [][NextDestructor]_vars

-----------------------------------------------------------------------------
(* CheckClass::checkConst on a class A with the members x and m and a       *)
(* member function f.                                                       *)

\* the statements of the body of f ( int b )
ConstStatements ==
    {<<"x", op, "b", ";">> :
        op \in {"=", "+=", "-=", "*=", "|=", "&=", "^=", "<<=", ">>=", "<<", "=="}}
    \cup {<<"m", "=", "b", ";">>, <<"b", "=", "x", ";">>, <<"b", "=", "x", "=", "0", ";">>,
          <<"m", "<<", "b", ";">>, <<"b", "++", ";">>, <<"delete", "b", ";">>,
          <<"g", "(", ")", ";">>, <<"if", "(", "x", ")", "{", "return", ";", "}">>}

StatementPrograms ==
    {<<"class", "A", "{", "int", "x", ";", "mutable", "int", "m", ";", "public:",
       "void", "f", "(", "int", "b", ")", "{">> \o Concat(body) \o <<"}", "}", ";">> :
        body \in SeqsUpTo(ConstStatements, MaxMembers)}

\* the classes before A and the header of A
ConstHeaders ==
    {<<"class", "A">>,
     <<"class", "B", "{", "public:", "virtual", "int", "f", "(", ")", ";", "}", ";",
       "class", "A", ":", "public", "B">>,
     <<"class", "B", "{", "public:", "int", "f", "(", ")", ";", "}", ";",
       "class", "A", ":", "public", "B">>,
     <<"class", "C", "{", "public:", "virtual", "int", "f", "(", ")", ";", "}", ";",
       "class", "B", ":", "public", "C", "{", "}", ";",
       "class", "A", ":", "public", "B">>,
     <<"struct", "B", "{", "virtual", "int", "f", "(", ")", ";", "}", ";",
       "struct", "A", ":", "B">>,
     <<"class", "B", "{", "public:", "virtual", "int", "f", "(", "int", "a", ")", ";", "}", ";",
       "class", "A", ":", "public", "B">>}

ConstReturnTypes ==
    {<<"int">>, <<"void">>, <<"HDC">>, <<"int", "*">>, <<"const", "int", "*">>,
     <<"const", "int", "&">>}

\* the declaration of f in A and its definition after A: in the class, after
\* it, or nowhere
ConstPrograms ==
    {header \o <<"{", "int", "x", ";", "public:", "A", "(", ")", "{", "}">>
        \o prefix \o ret \o <<"f", "(", ")">> \o suffix
        \o (IF where = "inline" THEN body ELSE <<";">>)
        \o <<"}", ";">>
        \o (IF where = "after" THEN ret \o <<"A", "::", "f", "(", ")">> \o suffix \o body
            ELSE <<>>) :
        header \in ConstHeaders, ret \in ConstReturnTypes,
        prefix \in {<<>>, <<"static">>, <<"virtual">>, <<"friend">>},
        suffix \in {<<>>, <<"const">>},
        where \in {"inline", "after", "nowhere"},
        body \in {<<"{", "return", "x", ";", "}">>}}

InitConst ==
    /\ tokens \in StatementPrograms \cup ConstPrograms
    /\ tokLink = Links(tokens)
    /\ fileIndex = SourceFile(tokens)
    /\ checkCodingStyle \in BOOLEAN
    /\ inconclusive = FALSE /\ ifcfg \in BOOLEAN
    /\ hasSymbolDatabase = FALSE
    /\ spaceInfo = <<>>
    /\ spaceInfoMMap = <<>>
    /\ errors = <<>>
    /\ aborted = FALSE
    /\ declared = <<>>
    /\ lastOp = "none"
    /\ dbCalls = 0
    /\ heap = NoObjects
    /\ analysis = NoAnalysis
    /\ amParams = <<>> /\ amFirst = NULL /\ amSecond = NULL /\ amPath = <<>>
    /\ amDepth = 0 /\ amResult = "none"

NextConst == CheckConst

SpecConst == InitConst /\ [][NextConst]_vars

-----------------------------------------------------------------------------
(* Properties of the symbol database.                                       *)

\* the SpaceInfo objects as createSymbolDatabase leaves them: every Var is
\* created with init = false
Built(space) ==
    [i \in 1..Len(space) |-> [space[i] EXCEPT !.varlist = ClearInit(space[i].varlist)]]

\* C1: once the database is built, an operation that calls
\* createSymbolDatabase again leaves spaceInfoMMap and every SpaceInfo as the
\* first call left them; no entry is added or duplicated.
C1_Idempotent ==
    [][hasSymbolDatabase =>
            /\ spaceInfoMMap' = spaceInfoMMap
            /\ Built(spaceInfo') = Built(spaceInfo)]_vars

\* a second operation has called createSymbolDatabase on a database that
\* holds a scope with functions and variables
C1_Witness ==
    /\ dbCalls = 2
    /\ ~aborted
    /\ \E i \in 1..Len(spaceInfo) :
          spaceInfo[i].functionList # <<>> /\ spaceInfo[i].varlist # <<>>

\* C2: for every scope S and every Func m of S.functionList, m.tokenDef lies
\* strictly between S.classStart and S.classEnd in token order.
C2_Containment ==
    hasSymbolDatabase /\ ~aborted =>
        \A i \in 1..Len(spaceInfo) : \A j \in 1..Len(spaceInfo[i].functionList) :
            /\ spaceInfo[i].classStart < spaceInfo[i].functionList[j].tokenDef
            /\ spaceInfo[i].functionList[j].tokenDef < spaceInfo[i].classEnd

\* C3: numConstructors of every SpaceInfo is the number of entries of its
\* functionList of type Constructor or CopyConstructor, and every declaration
\* the builder recognised is in the functionList of its scope exactly once.
C3_Constructors ==
    /\ \A i \in 1..Len(spaceInfo) :
          /\ spaceInfo[i].numConstructors =
                Cardinality({j \in 1..Len(spaceInfo[i].functionList) :
                    spaceInfo[i].functionList[j].type \in {Constructor, CopyConstructor}})
          /\ \A j \in 1..Len(spaceInfo[i].functionList) :
                \E k \in 1..Len(declared) :
                    declared[k] = <<i, spaceInfo[i].functionList[j].tokenDef>>
    /\ \A k \in 1..Len(declared) :
          Cardinality({j \in 1..Len(spaceInfo[declared[k][1]].functionList) :
              spaceInfo[declared[k][1]].functionList[j].tokenDef = declared[k][2]}) = 1

\* a class with a constructor whose implementation was found after the
\* class and a function without implementation, and a scope with an inline
\* function
C3_Witness ==
    /\ ~aborted
    /\ \E i \in 1..Len(spaceInfo) :
          /\ spaceInfo[i].numConstructors >= 1
          /\ \E j \in 1..Len(spaceInfo[i].functionList) :
                /\ spaceInfo[i].functionList[j].type = Constructor
                /\ spaceInfo[i].functionList[j].hasBody
                /\ ~spaceInfo[i].functionList[j].isInline
          /\ \E j \in 1..Len(spaceInfo[i].functionList) :
                ~spaceInfo[i].functionList[j].hasBody

-----------------------------------------------------------------------------
(* Properties of argsMatch, under SpecArgs.                                 *)

\* the declaration has no default values
NoDefaults == \A k \in 1..Len(amParams) : amParams[k].value = ""

\* the implementation writes no type with the class path
Unqualified == \A k \in 1..Len(amParams) : ~amParams[k].qualified

\* both sides name every parameter
AllNamed ==
    \A k \in 1..Len(amParams) : amParams[k].first # "" /\ amParams[k].second # ""

\* the two lists are token for token identical
Identical ==
    NoDefaults /\ Unqualified
    /\ \A k \in 1..Len(amParams) : amParams[k].first = amParams[k].second

\* C5: argsMatch is true of two argument lists without default values that
\* are identical, in both argument orders, and of two lists that differ only
\* in parameter names, a name omitted on one side included.
C5_NamesOnly ==
    /\ lastOp = "argsMatch" /\ NoDefaults /\ Unqualified => amResult = TRUE
    /\ lastOp = "argsMatchSwapped" /\ Identical => amResult = TRUE

\* argsMatch has compared two lists of two parameters, one named
\* differently on the two sides and one named on one side only
C5_Witness ==
    /\ lastOp = "argsMatch" /\ NoDefaults /\ Unqualified
    /\ amResult = TRUE
    /\ Len(amParams) = 2
    /\ amParams[1].first = "a" /\ amParams[1].second = "b"
    /\ amParams[2].first = "a" /\ amParams[2].second = ""

\* C6: argsMatch is true of a declaration and a definition that differ only
\* by "= value" default values on the side of the declaration, with the
\* same parameter names on the two sides or with different ones.
C6_Defaults ==
    lastOp = "argsMatch" /\ Unqualified /\ AllNamed => amResult = TRUE

\* C7: argsMatch is true of a definition that writes parameter types with
\* the full class path the declaration omits, at any parameter position.
C7_ClassPath ==
    lastOp = "argsMatch" /\ NoDefaults => amResult = TRUE

-----------------------------------------------------------------------------
(* Properties of the checks.                                                *)

\* the scope a diagnostic of a check that iterates the symbol database is about
DiagScope(d) ==
    CHOOSE i \in 1..Len(spaceInfo) :
        \/ d.id = "noConstructor" /\ spaceInfo[i].classDef = d.tok
        \/ /\ d.id \in {"uninitVar", "operatorEqVarError", "operatorEqRetRefThis"}
           /\ \E j \in 1..Len(spaceInfo[i].functionList) :
                 spaceInfo[i].functionList[j].token = d.tok
        \/ /\ d.id = "operatorEq"
           /\ \E j \in 1..Len(spaceInfo[i].functionList) :
                 tokAt(spaceInfo[i].functionList[j].token, -2) = d.tok
        \/ /\ d.id = "functionConst"
           /\ \E j \in 1..Len(spaceInfo[i].functionList) :
                 spaceInfo[i].functionList[j].token = d.tok[1]

DeclTokens(i) ==
    {t \in (spaceInfo[i].classStart + 2)..(spaceInfo[i].classEnd - 1) :
        /\ tokens[t + 1] = ";"
        /\ tokens[t - 1] \in {"int", "string"}
        /\ \A b \in (spaceInfo[i].classStart + 1)..(t - 1) :
              tokens[b] = "{" => tokLink[b] < t}

\* the names of the member variables of the scope i in declaration order
DeclaredNames(i) ==
    [k \in 1..Cardinality(DeclTokens(i)) |->
        tokens[CHOOSE t \in DeclTokens(i) :
                   Cardinality({u \in DeclTokens(i) : u < t}) = k - 1]]

Reverse(s) == [k \in 1..Len(s) |-> s[Len(s) + 1 - k]]

\* the variable names of the uninitVar diagnostics in ds for the function tok
RECURSIVE UninitNames(_, _)
UninitNames(ds, tok) ==
    IF ds = <<>> THEN <<>>
    ELSE (IF Head(ds).id = "uninitVar" /\ Head(ds).tok = tok
          THEN <<Head(ds).names[2]>> ELSE <<>>)
         \o UninitNames(Tail(ds), tok)

\* is s what is left of t when some of its elements are removed
RECURSIVE IsSubSeq(_, _)
IsSubSeq(s, t) ==
    IF s = <<>> THEN TRUE
    ELSE IF t = <<>> THEN FALSE
    ELSE IF Head(s) = Head(t) THEN IsSubSeq(Tail(s), Tail(t))
    ELSE IsSubSeq(s, Tail(t))

NoConstructorErrors(i) ==
    {p \in 1..Len(errors) :
        errors[p].id = "noConstructor" /\ errors[p].tok = spaceInfo[i].classDef}

\* C10: with _checkCodingStyle set, constructors() emits noConstructor for a
\* class or struct once if its numConstructors is 0 and one of its members
\* is private, not of class type and not static, and not at all otherwise.
C10_NoConstructor ==
    lastOp = "constructors" /\ checkCodingStyle /\ ~aborted =>
        \A i \in 1..Len(spaceInfo) :
            ~spaceInfo[i].isNamespace =>
                Cardinality(NoConstructorErrors(i)) =
                    IF /\ spaceInfo[i].numConstructors = 0
                       /\ \E k \in 1..Len(spaceInfo[i].varlist) :
                             /\ spaceInfo[i].varlist[k].priv
                             /\ ~spaceInfo[i].varlist[k].isClass
                             /\ ~spaceInfo[i].varlist[k].isStatic
                    THEN 1 ELSE 0

\* constructors() has reported a class without constructor that has a
\* private static member and a private member that is not static
C10_Witness ==
    /\ lastOp = "constructors" /\ checkCodingStyle /\ ~aborted
    /\ \E i \in 1..Len(spaceInfo) :
          /\ Cardinality(NoConstructorErrors(i)) = 1
          /\ \E k \in 1..Len(spaceInfo[i].varlist) :
                spaceInfo[i].varlist[k].priv /\ spaceInfo[i].varlist[k].isStatic

\* the Var list as getVarList creates it: no Var is initialized
Fresh(varlist) == [k \in 1..Len(varlist) |-> [varlist[k] EXCEPT !.init = FALSE]]

\* the names of the members of the scope i that the function leaves
\* uninitialized when its analysis starts from a fresh list: not static,
\* and not of class type if the function is a plain Constructor
RECURSIVE LeftUninitialized(_, _, _)
LeftUninitialized(varlist, type, k) ==
    IF k > Len(varlist) THEN <<>>
    ELSE (IF /\ ~varlist[k].init
             /\ ~varlist[k].isStatic
             /\ ~(varlist[k].isClass /\ type = Constructor)
          THEN <<varlist[k].name>> ELSE <<>>)
         \o LeftUninitialized(varlist, type, k + 1)

Uninitialized(i, function) ==
    LeftUninitialized(initializeVarList(spaceInfo[i].classDef, function.token,
                                        Fresh(spaceInfo[i].varlist), <<>>),
                      function.type, 1)

\* C11: for every Constructor or CopyConstructor with a body, constructors()
\* emits uninitVar for exactly the members its analysis from cleared flags
\* leaves uninitialized, if its access is not Private, and none if it is
\* Private; the flags of one constructor do not reach the next.
C11_UninitVar ==
    lastOp = "constructors" /\ checkCodingStyle /\ ~aborted =>
        \A i \in 1..Len(spaceInfo) : \A j \in 1..Len(spaceInfo[i].functionList) :
            /\ spaceInfo[i].functionList[j].hasBody
            /\ spaceInfo[i].functionList[j].type \in {Constructor, CopyConstructor}
            => UninitNames(errors, spaceInfo[i].functionList[j].token)
                 = IF spaceInfo[i].functionList[j].access = Private THEN <<>>
                   ELSE Uninitialized(i, spaceInfo[i].functionList[j])

\* constructors() has analysed a constructor that initializes a member and
\* then a constructor of the same class that does not, and reported the
\* member for the second
C11_Witness ==
    /\ lastOp = "constructors" /\ checkCodingStyle /\ ~aborted
    /\ \E i \in 1..Len(spaceInfo) :
          \E j1 \in 1..Len(spaceInfo[i].functionList) :
          \E j2 \in 1..Len(spaceInfo[i].functionList) :
              /\ j1 < j2
              /\ spaceInfo[i].functionList[j1].type = Constructor
              /\ spaceInfo[i].functionList[j2].type = CopyConstructor
              /\ UninitNames(errors, spaceInfo[i].functionList[j1].token) = <<>>
              /\ UninitNames(errors, spaceInfo[i].functionList[j2].token) = <<"x">>

\* the variable names of the operatorEqVarError diagnostics in ds for the
\* function tok
RECURSIVE OperatorEqNames(_, _)
OperatorEqNames(ds, tok) ==
    IF ds = <<>> THEN <<>>
    ELSE (IF Head(ds).id = "operatorEqVarError" /\ Head(ds).tok = tok
          THEN <<Head(ds).names[2]>> ELSE <<>>)
         \o OperatorEqNames(Tail(ds), tok)

\* is the class name of the scope i one of the tokens from..to
NameAmong(i, from, to) == \E t \in from..to : tokens[t] = spaceInfo[i].className

\* C12: for an operator= with a body, constructors() emits
\* operatorEqVarError for the members it leaves uninitialized exactly when
\* the class name is among the tokens of its body, between "{" and "}".
C12_NameInBody ==
    lastOp = "constructors" /\ checkCodingStyle /\ ~aborted =>
        \A i \in 1..Len(spaceInfo) : \A j \in 1..Len(spaceInfo[i].functionList) :
            /\ spaceInfo[i].functionList[j].hasBody
            /\ spaceInfo[i].functionList[j].type = OperatorEqual
            => OperatorEqNames(errors, spaceInfo[i].functionList[j].token)
                 = IF NameAmong(i, GotoBrace(spaceInfo[i].functionList[j].token),
                                tokLink[GotoBrace(spaceInfo[i].functionList[j].token)])
                   THEN Uninitialized(i, spaceInfo[i].functionList[j])
                   ELSE <<>>

\* C12, parameter list: for an operator= with a body, constructors() emits
\* operatorEqVarError for the members it leaves uninitialized exactly when
\* the class name is among the tokens of its parameter list, between the
\* "(" after "operator =" and its ")".
C12_NameInParameters ==
    lastOp = "constructors" /\ checkCodingStyle /\ ~aborted =>
        \A i \in 1..Len(spaceInfo) : \A j \in 1..Len(spaceInfo[i].functionList) :
            /\ spaceInfo[i].functionList[j].hasBody
            /\ spaceInfo[i].functionList[j].type = OperatorEqual
            => OperatorEqNames(errors, spaceInfo[i].functionList[j].token)
                 = IF NameAmong(i, spaceInfo[i].functionList[j].token + 1,
                                tokLink[spaceInfo[i].functionList[j].token + 1])
                   THEN Uninitialized(i, spaceInfo[i].functionList[j])
                   ELSE <<>>

\* constructors() has analysed an operator= that names the class in its
\* body only and leaves a member uninitialized, and reported nothing for it
C12_Witness ==
    /\ lastOp = "constructors" /\ checkCodingStyle /\ ~aborted
    /\ \E i \in 1..Len(spaceInfo) : \E j \in 1..Len(spaceInfo[i].functionList) :
          /\ spaceInfo[i].functionList[j].hasBody
          /\ spaceInfo[i].functionList[j].type = OperatorEqual
          /\ Uninitialized(i, spaceInfo[i].functionList[j]) # <<>>
          /\ NameAmong(i, GotoBrace(spaceInfo[i].functionList[j].token),
                       tokLink[GotoBrace(spaceInfo[i].functionList[j].token)])
          /\ ~NameAmong(i, spaceInfo[i].functionList[j].token + 1,
                        tokLink[spaceInfo[i].functionList[j].token + 1])
          /\ OperatorEqNames(errors, spaceInfo[i].functionList[j].token) = <<>>

-----------------------------------------------------------------------------
(* Properties of noMemset, under SpecMemset.                                *)

\* the "{" of the class or struct A
MemsetClassStart == First({b \in 1..Len(tokens) : tokens[b] = "{"})

\* the tokens "std" that start the declaration of a direct member of A that
\* is no pointer: directly in the braces of A, with no "*" before its ";"
DirectStdMembers ==
    {t \in (MemsetClassStart + 1)..(tokLink[MemsetClassStart] - 1) :
        /\ tokens[t] = "std"
        /\ \A b \in (MemsetClassStart + 1)..(t - 1) : tokens[b] = "{" => tokLink[b] < t
        /\ \A u \in t..(tokLink[MemsetClassStart] - 1) :
              tokens[u] = "*" => \E e \in t..u : tokens[e] = ";"}

\* the calls memset|memcpy|memmove in the token list
MemsetCallTokens == {c \in 1..Len(tokens) : tokens[c] \in {"memset", "memcpy", "memmove"}}

\* C13: for each call whose size argument is sizeof(A), noMemset emits one
\* memsetStruct per direct member of A declared as "std :: X name ;" or
\* "std :: X < ... > name ;", wherever in the body of A it is declared, and
\* none for a std:: variable declared in the body of a member function.
C13_DirectMembers ==
    lastOp = "noMemset" =>
        /\ \A p \in 1..Len(errors) : errors[p].id = "memsetStruct"
        /\ \A c \in MemsetCallTokens : \A X \in {"string", "vector"} :
              Cardinality({p \in 1..Len(errors) :
                              errors[p].tok = c /\ errors[p].names = <<tokens[c], X>>})
                = Cardinality({t \in DirectStdMembers : tokens[t + 2] = X})

-----------------------------------------------------------------------------
(* Properties of operatorEq.                                                *)

\* the operator= functions operatorEq() is to report: not Private, and
\* declared with the return type void before "operator"
VoidOperators ==
    {f \in {<<i, j>> : i \in 1..Len(spaceInfo), j \in 1..(Len(tokens))} :
        /\ f[2] <= Len(spaceInfo[f[1]].functionList)
        /\ spaceInfo[f[1]].functionList[f[2]].type = OperatorEqual
        /\ spaceInfo[f[1]].functionList[f[2]].access # Private
        /\ str(tokAt(spaceInfo[f[1]].functionList[f[2]].tokenDef, -2)) = "void"}

\* C14: operatorEq() emits operatorEq for every operator= that is not
\* Private and is declared to return void, be it inline, without a body or
\* defined after the class as "void C :: operator = (...) {...}", and emits
\* nothing for any other function.
C14_VoidOperator ==
    lastOp = "operatorEq" /\ checkCodingStyle /\ ~aborted =>
        /\ Len(errors) = Cardinality(VoidOperators)
        /\ \A p \in 1..Len(errors) :
              /\ errors[p].id = "operatorEq"
              /\ \E f \in VoidOperators :
                    \/ errors[p].tok = tokAt(spaceInfo[f[1]].functionList[f[2]].tokenDef, -2)
                    \/ errors[p].tok = tokAt(spaceInfo[f[1]].functionList[f[2]].token, -2)

-----------------------------------------------------------------------------
(* Properties of operatorEqRetRefThis.                                      *)

\* the "{" of the body of the function and the tokens "return" in the body
BodyStart(function) == GotoBrace(function.token)

BodyReturns(function) ==
    {r \in BodyStart(function)..tokLink[BodyStart(function)] : tokens[r] = "return"}

\* the token after the return at r and the cast "( ClassName & )" if there
\* is one
AfterCast(i, r) ==
    IF /\ tokens[r + 1] = "(" /\ tokens[r + 2] = spaceInfo[i].className
       /\ tokens[r + 3] = "&" /\ tokens[r + 4] = ")"
    THEN r + 5 ELSE r + 1

\* is the return at r followed by "* this", "( * this", "* this +=" or
\* "operator = ("
WellShaped(i, r) ==
    \E t \in {AfterCast(i, r)} :
        \/ tokens[t] = "*" /\ tokens[t + 1] = "this"
        \/ tokens[t] = "(" /\ tokens[t + 1] = "*" /\ tokens[t + 2] = "this"
        \/ tokens[t] = "operator" /\ tokens[t + 1] = "=" /\ tokens[t + 2] = "("

\* the operatorEqRetRefThis diagnostics for the function
RetRefThisErrors(function) ==
    {p \in 1..Len(errors) :
        errors[p].id = "operatorEqRetRefThis" /\ errors[p].tok = function.token}

\* C15: for every operator= with a body whose declared return type is
\* "ClassName &", operatorEqRetRefThis() emits one diagnostic if the body
\* has no return and else one for every return that is not followed, after
\* an optional cast "( ClassName & )", by "* this", "( * this",
\* "* this +=" or "operator = (".
C15_ReturnShape ==
    lastOp = "operatorEqRetRefThis" /\ checkCodingStyle /\ ~aborted =>
        \A i \in 1..Len(spaceInfo) : \A j \in 1..Len(spaceInfo[i].functionList) :
            /\ spaceInfo[i].functionList[j].type = OperatorEqual
            /\ spaceInfo[i].functionList[j].hasBody
            /\ str(tokAt(spaceInfo[i].functionList[j].tokenDef, -3)) = spaceInfo[i].className
            /\ str(tokAt(spaceInfo[i].functionList[j].tokenDef, -2)) = "&"
            /\ str(tokAt(spaceInfo[i].functionList[j].tokenDef, -4))
                  \in {";", "{", "}", "public:", "protected:", "private:"}
            => Cardinality(RetRefThisErrors(spaceInfo[i].functionList[j]))
                 = IF BodyReturns(spaceInfo[i].functionList[j]) = {} THEN 1
                   ELSE Cardinality({r \in BodyReturns(spaceInfo[i].functionList[j]) :
                                        ~WellShaped(i, r)})

-----------------------------------------------------------------------------
(* Properties of operatorEqToSelf, under SpecToSelf.                        *)

\* the "{" of the body of the operator=: the first "{" after the ")" of an
\* argument list that follows "="
ToSelfBody ==
    First({b \in 2..Len(tokens) :
              /\ tokens[b] = "{" /\ tokens[b - 1] = ")"
              /\ tokens[tokLink[b - 1] - 1] = "="})

\* the header of the class has a comma in its list of base classes
CommaInHeader ==
    \E c \in 1..Len(tokens) : tokens[c] = "," /\ \A b \in 1..c : tokens[b] # "{"

\* the body holds an "if (...)" that compares this with the address of the
\* parameter
GuardInBody ==
    \E k \in ToSelfBody..tokLink[ToSelfBody] :
        /\ tokens[k] = "if" /\ tokens[k + 1] = "("
        /\ \E g \in (k + 2)..(tokLink[k + 1] - 1) :
              \/ /\ tokens[g] = "this" /\ tokens[g + 1] \in {"==", "!="}
                 /\ tokens[g + 2] = "&" /\ tokens[g + 3] = tokens[ToSelfBody - 2]
              \/ /\ tokens[g] = "&" /\ tokens[g + 1] = tokens[ToSelfBody - 2]
                 /\ tokens[g + 2] \in {"==", "!="} /\ tokens[g + 3] = "this"

\* the body holds a deallocation of a name at d, the token "free" or
\* "delete", and later the reassignment of the same name that goes with it
Reallocated(d) ==
    \E r \in (d + 1)..(tokLink[ToSelfBody] - 2) :
        \/ /\ tokens[d] = "free" /\ tokens[d + 1] = "("
           /\ tokens[r] = tokens[d + 2] /\ isName(tokens[r]) /\ tokens[r + 1] = "="
        \/ /\ tokens[d] = "delete" /\ tokens[d + 1] = "[" /\ tokens[d + 2] = "]"
           /\ tokens[r] = tokens[d + 3] /\ tokens[r + 1] = "=" /\ tokens[r + 2] = "new"
           /\ tokens[r + 4] = "["
        \/ /\ tokens[d] = "delete" /\ tokens[d + 1] # "["
           /\ tokens[r] = tokens[d + 1] /\ tokens[r + 1] = "=" /\ tokens[r + 2] = "new"

\* C16: operatorEqToSelf() emits operatorEqToSelf for the operator= of the
\* class exactly when the header has no comma in its base classes, the
\* body has no check for assignment to self and the body holds a
\* deallocation of a name followed later by its reassignment.
C16_Deallocation ==
    lastOp = "operatorEqToSelf" /\ checkCodingStyle /\ ~aborted =>
        /\ Len(errors) =
              IF /\ ~CommaInHeader /\ ~GuardInBody
                 /\ \E d \in ToSelfBody..tokLink[ToSelfBody] : Reallocated(d)
              THEN 1 ELSE 0
        /\ \A p \in 1..Len(errors) : errors[p].id = "operatorEqToSelf"

\* C16, after "{", ";" or ",": as C16, where the deallocation counts only if
\* "free" or "delete" stands directly after "{", ";" or ",".
C16_StatementStart ==
    lastOp = "operatorEqToSelf" /\ checkCodingStyle /\ ~aborted =>
        /\ Len(errors) =
              IF /\ ~CommaInHeader /\ ~GuardInBody
                 /\ \E d \in ToSelfBody..tokLink[ToSelfBody] :
                       tokens[d - 1] \in {"{", ";", ","} /\ Reallocated(d)
              THEN 1 ELSE 0
        /\ \A p \in 1..Len(errors) : errors[p].id = "operatorEqToSelf"

\* operatorEqToSelf() has reported nothing for a body without a check whose
\* only deallocation follows the "}" of a block and is followed by its
\* reassignment
C16_Witness ==
    /\ lastOp = "operatorEqToSelf" /\ checkCodingStyle /\ ~aborted
    /\ ~CommaInHeader /\ ~GuardInBody
    /\ \E d \in ToSelfBody..tokLink[ToSelfBody] : Reallocated(d)
    /\ errors = <<>>

-----------------------------------------------------------------------------
(* Properties of virtualDestructor, under SpecDestructor.                   *)

\* the "~" of the destructor of B in the body of B, NULL if it has none
BaseDtor == First({t \in 1..tokLink[3] : tokens[t] = "~"})

\* D has a destructor with a body that is not empty, inherits B publicly,
\* B is declared "class B {" and has a destructor that is not virtual
PublicBaseNotVirtual ==
    /\ \E t \in tokLink[3]..(Len(tokens) - 5) :
          tokens[t] = "~" /\ tokens[t + 1] = "D" /\ tokens[t + 5] # "}"
    /\ \E t \in tokLink[3]..(Len(tokens) - 1) : tokens[t] = "public" /\ tokens[t + 1] = "B"
    /\ tokens[1] = "class"
    /\ BaseDtor # NULL /\ tokens[BaseDtor - 1] # "virtual"

\* the access label nearest before the destructor of B in the body of B,
\* "" if there is none
NearestLabel == str(Last({t \in 3..BaseDtor : tokens[t] \in AccessLabels}))

\* C17: virtualDestructor() emits nothing when settings.inconclusive is
\* false; when it is true, for a class D with a non-empty destructor and a
\* publicly inherited base "class B {" whose destructor is not virtual, it
\* emits virtualDestructor exactly when the nearest access label before the
\* destructor of B in the body of B is "public:".
C17_PublicDestructor ==
    lastOp = "virtualDestructor" =>
        /\ ~inconclusive => errors = <<>>
        /\ inconclusive /\ PublicBaseNotVirtual =>
              /\ (errors # <<>>) = (NearestLabel = "public:")
              /\ \A p \in 1..Len(errors) :
                    errors[p].id = "virtualDestructor" /\ errors[p].names = <<"B", "D">>

\* virtualDestructor() has reported the public destructor of B, and there
\* is a private or protected section before the public one
C17_Witness ==
    /\ lastOp = "virtualDestructor" /\ inconclusive /\ PublicBaseNotVirtual
    /\ NearestLabel = "public:"
    /\ \E t \in 3..BaseDtor : tokens[t] \in {"private:", "protected:"}
    /\ Len(errors) = 1

-----------------------------------------------------------------------------
(* Properties of checkConst, under SpecConst.                               *)

\* the functions of the database: <<scope, index in its functionList>>
DbFunctions ==
    {<<i, j>> : i \in 1..Len(spaceInfo), j \in 1..MaxMembers + 2}
        \cap {v \in (1..Len(spaceInfo)) \X (1..MaxMembers + 2) :
                v[2] <= Len(spaceInfo[v[1]].functionList)}

\* the tokens of the return type in the declaration of a function: from
\* the start of the declaration to the name, without static, virtual, friend
ReturnType(function) ==
    SubSeq(tokens,
           First({s \in DeclarationStart(function.tokenDef)..function.tokenDef :
                    tokens[s] \notin {"static", "virtual", "friend"}}),
           function.tokenDef - 1)

\* the return type is a pointer or a reference to const, or ends with a
\* type name that is not in upper case
ReturnTypeFilter(function) ==
    IF tokens[function.tokenDef - 1] \in {"*", "&"}
    THEN \E k \in 1..Len(ReturnType(function)) : ReturnType(function)[k] = "const"
    ELSE tokens[function.tokenDef - 1] \notin UpperCaseNames

\* the function of the scope i is declared virtual, with its return type,
\* name and arguments, in a class before the scope, and the scope has a
\* list of base classes
DeclaredVirtualInBase(i, function) ==
    /\ tokens[spaceInfo[i].classDef + 2] = ":"
    /\ \E v \in 1..spaceInfo[i].classDef :
       \E n \in v..spaceInfo[i].classDef :
          /\ tokens[v] = "virtual"
          /\ tokens[n] = tokens[function.tokenDef]
          /\ SubSeq(tokens, v + 1, n - 1) = ReturnType(function)
          /\ tokens[n + 1] = "(" /\ tokens[function.tokenDef + 1] = "("
          /\ SubSeq(tokens, n + 1, tokLink[n + 1])
                = SubSeq(tokens, function.tokenDef + 1, tokLink[function.tokenDef + 1])

\* the diagnostics functionConst for a function
ConstErrors(function) ==
    {p \in 1..Len(errors) :
        /\ errors[p].id = "functionConst"
        /\ errors[p].tok \in {<<function.token>>, <<function.token, function.tokenDef>>}}

\* a function that can be const by the conditions of C18
CanBeConst(i, function) ==
    /\ function.type = Function /\ function.hasBody
    /\ ~function.isFriend /\ ~function.isStatic /\ ~function.isConst /\ ~function.isVirtual
    /\ ReturnTypeFilter(function)
    /\ ~DeclaredVirtualInBase(i, function)
    /\ checkConstFunc(spaceInfo[i].className, spaceInfo[i].derivedFrom, spaceInfo[i].varlist,
                      link(next(function.token)))

\* C18: checkConst() emits functionConst exactly once for each function of
\* type Function with a body that is not friend, static, const or virtual,
\* passes the return-type filter, is not declared virtual in a base class
\* and for which checkConstFunc returns true; it emits nothing else, and
\* nothing without _checkCodingStyle or with ifcfg.
C18_FunctionConst ==
    lastOp = "checkConst" =>
        /\ ~checkCodingStyle \/ ifcfg => errors = <<>>
        /\ \A v \in DbFunctions :
              Cardinality(ConstErrors(spaceInfo[v[1]].functionList[v[2]]))
                = IF CanBeConst(v[1], spaceInfo[v[1]].functionList[v[2]]) THEN 1 ELSE 0
        /\ \A p \in 1..Len(errors) :
              \E v \in DbFunctions : p \in ConstErrors(spaceInfo[v[1]].functionList[v[2]])

\* the tokens of the body of a function
BodyTokens(function) ==
    (link(next(function.token)) + 1)..link(link(next(function.token)) + 1)

\* the body assigns to a member that is not mutable
AssignsMember(i, function) ==
    \E k \in BodyTokens(function) :
        /\ tokens[k] \in {"=", "+=", "-=", "*=", "|=", "&=", "^=", "<<=", ">>="}
        /\ \E r \in 1..Len(spaceInfo[i].varlist) :
              spaceInfo[i].varlist[r].name = tokens[k - 1] /\ ~spaceInfo[i].varlist[r].isMutable

\* the body applies << to a member
StreamsMember(i, function) ==
    \E k \in BodyTokens(function) :
        /\ tokens[k] = "<<"
        /\ \E r \in 1..Len(spaceInfo[i].varlist) : spaceInfo[i].varlist[r].name = tokens[k - 1]

\* the body has a ++, a --, a delete or a call other than return, c_str, if
ChangesOrCalls(function) ==
    \E k \in BodyTokens(function) :
        \/ tokens[k] \in {"++", "--", "delete"}
        \/ isName(tokens[k]) /\ tokens[k + 1] = "(" /\ tokens[k] \notin {"return", "c_str", "if"}

\* the body assigns to a mutable member, and to no other member
AssignsMutableOnly(i, function) ==
    /\ ~AssignsMember(i, function)
    /\ \E k \in BodyTokens(function) :
          /\ tokens[k] = "="
          /\ \E r \in 1..Len(spaceInfo[i].varlist) :
                spaceInfo[i].varlist[r].name = tokens[k - 1] /\ spaceInfo[i].varlist[r].isMutable

\* C19: checkConstFunc returns false for every body with an assignment (=
\* or a compound assignment operator) to a member that is not mutable, with
\* << applied to a member, with a ++, a --, a delete or a call other than
\* return, c_str and if; it returns true for a body with an assignment to a
\* mutable member and none of these.
C19_NotConst ==
    lastOp = "checkConst" =>
        \A v \in DbFunctions :
        \E i \in {v[1]} :
        \E function \in {spaceInfo[v[1]].functionList[v[2]]} :
            function.hasBody =>
                IF AssignsMember(i, function) \/ StreamsMember(i, function)
                      \/ ChangesOrCalls(function)
                THEN ~checkConstFunc(spaceInfo[i].className, spaceInfo[i].derivedFrom,
                                     spaceInfo[i].varlist, link(next(function.token)))
                ELSE AssignsMutableOnly(i, function)
                        => checkConstFunc(spaceInfo[i].className, spaceInfo[i].derivedFrom,
                                          spaceInfo[i].varlist, link(next(function.token)))

\* C20: functionConst is never emitted for a function of a derived class
\* whose return type, name and arguments are declared virtual in a base
\* class, whether the function is defined in the class or after it.
C20_Override ==
    lastOp = "checkConst" =>
        \A v \in DbFunctions :
            DeclaredVirtualInBase(v[1], spaceInfo[v[1]].functionList[v[2]])
                => ConstErrors(spaceInfo[v[1]].functionList[v[2]]) = {}

-----------------------------------------------------------------------------
(* Properties of the scopes of the database, under Spec.                    *)

\* the recorded scopes whose braces the header of the scope i is inside
Enclosing(i) ==
    {k \in 1..Len(spaceInfo) :
        /\ spaceInfo[k].classStart < spaceInfo[i].classDef
        /\ spaceInfo[i].classDef < spaceInfo[k].classEnd}

\* C21: after createSymbolDatabase, the nest of every SpaceInfo is null
\* exactly when its header is inside the braces of no recorded scope, and
\* otherwise the innermost recorded scope whose braces it is inside; also
\* for a class declared after a namespace has been closed.
C21_NestForest ==
    hasSymbolDatabase /\ ~aborted =>
        \A i \in 1..Len(spaceInfo) :
            IF Enclosing(i) = {} THEN spaceInfo[i].nest = NULL
            ELSE /\ spaceInfo[i].nest \in Enclosing(i)
                 /\ \A k \in Enclosing(i) :
                       spaceInfo[k].classStart <= spaceInfo[spaceInfo[i].nest].classStart

Candidates(i, function) ==
    {t \in (spaceInfo[i].classEnd + 1)..(Len(tokens) - 1) :
        /\ tokens[t] = str(function.tokenDef)
        /\ Match(IF function.isOperator THEN t - 3 ELSE t - 2,
                 <<{spaceInfo[i].className}, {"::"}>>)
        /\ function.isOperator => tokens[t - 1] = "operator"
        /\ tokens[t + 1] = "("
        /\ Match(link(t + 1), <<{")"}, {"const", ""}, {"{"}>>)
        /\ argsMatch(tokAt(function.tokenDef, 2), tokAt(t, 2),
                     <<spaceInfo[i].className, "::">>, 1)}

\* C23: after createSymbolDatabase, for every Func: isInline implies hasBody
\* and token = tokenDef; no hasBody implies token = tokenDef and not
\* isInline; hasBody without isInline implies that token is another token
\* than tokenDef, after the classEnd of the class, qualified with the class
\* and followed by arguments that passed argsMatch and by "{" or "const {",
\* and that it is the first such definition in token order.
C23_Implementation ==
    hasSymbolDatabase /\ ~aborted =>
        \A i \in 1..Len(spaceInfo) : \A j \in 1..Len(spaceInfo[i].functionList) :
        \E function \in {spaceInfo[i].functionList[j]} :
            /\ function.isInline => function.hasBody /\ function.token = function.tokenDef
            /\ ~function.hasBody => function.token = function.tokenDef /\ ~function.isInline
            /\ function.hasBody /\ ~function.isInline =>
                  /\ function.token # function.tokenDef
                  /\ function.token > spaceInfo[i].classEnd
                  /\ spaceInfo[i].nest = NULL =>
                        /\ function.token \in Candidates(i, function)
                        /\ \A t \in Candidates(i, function) : function.token <= t
            /\ ~function.isInline /\ spaceInfo[i].nest = NULL /\ Candidates(i, function) # {} =>
                  function.token = First(Candidates(i, function))

\* the database has a function whose recorded definition is the second of
\* two qualified definitions of its name: the first did not pass argsMatch
C23_Witness ==
    /\ hasSymbolDatabase /\ ~aborted
    /\ \E i \in 1..Len(spaceInfo) : \E j \in 1..Len(spaceInfo[i].functionList) :
       \E function \in {spaceInfo[i].functionList[j]} :
          /\ function.hasBody /\ ~function.isInline
          /\ \E t \in (spaceInfo[i].classEnd + 1)..(function.token - 1) :
                /\ tokens[t] = str(function.tokenDef)
                /\ Match(t - 2, <<{spaceInfo[i].className}, {"::"}>>)
                /\ t \notin Candidates(i, function)

-----------------------------------------------------------------------------
(* CheckClass::privateFunctions: private member functions that are never    *)
(* used.  FuncList is the set of the tokens pushed, which are reported in   *)
(* token order.                                                             *)

unusedPrivateFunctionError(tok, classname, funcname) ==
    Diagnostic(tok, "style", "unusedPrivateFunction", <<classname, funcname>>)

\* the "}" at which the loop over the class at tok1 ends
PrivateClassEnd(tok1) ==
    (CHOOSE it \in {IF b = NULL \/ link(b) = NULL THEN Len(tokens) ELSE link(b)
        : b \in {First({t \in tok1..Len(tokens) : tokens[t] = "{"})}} : TRUE)

\* indent_level when the loop that started at tok1 comes to the token t
IndentLevel(tok1, t) ==
    Cardinality({k \in tok1..(t - 1) : tokens[k] = "{"})
        - Cardinality({k \in tok1..(t - 1) : tokens[k] = "}"})

\* t passes "else if (indent_level != 1) continue"
AtClassLevel(tok1, t) == tokens[t] \notin {"{", "}"} /\ IndentLevel(tok1, t) = 1

\* the value of priv when the loop comes to the token t
priv(tok1, t) ==
    (CHOOSE it \in {IF label = NULL THEN tokens[tok1] # "struct" ELSE tokens[label] = "private:"
        : label \in {Last({k \in tok1..(t - 1) :
                            /\ AtClassLevel(tok1, k)
                            /\ tokens[k] \in {"private:", "public:", "protected:"}})}} : TRUE)

\* "typedef %type% (" and "[:,] %var% (": tok = tok->tokAt(2)->link()
SkipsCall(tok1, s) ==
    /\ AtClassLevel(tok1, s) /\ priv(tok1, s)
    /\ tokens[s] \notin {"private:", "public:", "protected:"}
    /\ \/ Match(s, <<{"typedef"}, TYPE, {"("}>>)
       \/ Match(s, <<{":", ","}, VAR, {"("}>>)

\* the tokens of the class that the loop comes to
Visited(tok1, t) ==
    /\ t \in tok1..PrivateClassEnd(tok1)
    /\ ~\E s \in tok1..(t - 1) : SkipsCall(tok1, s) /\ t <= link(tokAt(s, 2))

\* a friend declaration or an embedded class: FuncList.clear(); break
FuncListCleared(tok1) ==
    \E t \in tok1..(PrivateClassEnd(tok1) - 1) :
        /\ Visited(tok1, t)
        /\ \/ Match(t, <<{"friend"}, VAR>>)
           \/ AtClassLevel(tok1, t) /\ tokens[t] = "class"

\* "Get private functions..": the tokens pushed to FuncList
FuncList(tok1) ==
    IF FuncListCleared(tok1) THEN {}
    ELSE {t \in tok1..PrivateClassEnd(tok1) :
            /\ Visited(tok1, t) /\ AtClassLevel(tok1, t) /\ priv(tok1, t)
            /\ tokens[t] \notin {"private:", "public:", "protected:"}
            /\ ~SkipsCall(tok1, t)
            /\ Match(t, <<VAR, {"("}>>)
            /\ ~simpleMatch(link(next(t)), <<")", "(">>)
            /\ tokens[t] # str(next(tok1))}

\* a scan for the bodies that takes "struct" classname as well
InStructOrClass(classname, ftok) ==
    \E c \in 1..ftok :
        /\ Match(c, <<{"class", "struct"}, {classname}, {":", "{"}>>)
        /\ \E b \in {First({t \in c..Len(tokens) : tokens[t] = "{"})} :
              /\ b # NULL /\ b < ftok /\ ftok < link(b)
              /\ IndentLevel(c, ftok) = 1

\* inclass && indent_level == 1 at ftok: ftok is at the level of the members
\* of a "class classname :|{"
InClass(classname, ftok) ==
    \E c \in 1..ftok :
        /\ Match(c, <<{"class"}, {classname}, {":", "{"}>>)
        /\ \E b \in {First({t \in c..Len(tokens) : tokens[t] = "{"})} :
              /\ b # NULL /\ b < ftok /\ ftok < link(b)
              /\ IndentLevel(c, ftok) = 1

\* "Check member class functions to see what functions are used.."
IsMemberFunction(classname, ftok) ==
    \/ InClass(classname, ftok) /\ Match(ftok, <<VAR, {"("}>>)
    \/ Match(ftok, <<{classname}, {"::"}, {"~", ""}, VAR, {"("}>>)

\* while (ftok && ftok->str() != ")") ftok = ftok->next()
ArgumentsEnd(ftok) == First({t \in ftok..Len(tokens) : tokens[t] = ")"})

\* the token ftok is at after the initializer list, if there is one
InitializersEnd(close) ==
    IF Match(close, <<{")"}, {":"}, VAR, {"("}>>)
    THEN First({t \in close..Len(tokens) : str(next(t)) \in {"{", "}", ";"}})
    ELSE close

\* the member function heads that the loop over all tokens comes to: those
\* that are not in the arguments or initializers of another head
FunctionHeads(classname) ==
    (CHOOSE it \in {
        {h \in heads : \A h0 \in heads :
            h0 < h => /\ ArgumentsEnd(h0) # NULL
                      /\ InitializersEnd(ArgumentsEnd(h0)) # NULL
                      /\ InitializersEnd(ArgumentsEnd(h0)) < h}
        : heads \in {{h \in 1..Len(tokens) : IsMemberFunction(classname, h)}}} : TRUE)

\* the ")" before the body of the member function at the head h, NULL if
\* "if (!Token::Match(ftok, ") const| {")) continue"
FunctionBody(h) ==
    (CHOOSE it \in {IF e # NULL /\ Match(e, <<{")"}, {"const", ""}, {"{"}>>) THEN e ELSE NULL
        : e \in {InitializersEnd(ArgumentsEnd(h))}} : TRUE)

\* the names that the initializer list of the head h removes from FuncList
InitializerNames(h) ==
    (CHOOSE it \in {(CHOOSE it \in {
        IF close = NULL \/ end = NULL THEN {}
        ELSE {tokens[t + 1] : t \in {t \in close..(end - 1) :
                                        Match(t, <<{"::", ",", "("}, VAR, {",", ")"}>>)}}
        : end \in {InitializersEnd(close)}} : TRUE)
        : close \in {ArgumentsEnd(h)}} : TRUE)

\* "Parse function..": the names that the body after ftok removes
BodyNames(ftok) ==
    IF ftok = NULL THEN {}
    ELSE {tokens[t] : t \in {t \in ftok..link(First({b \in ftok..Len(tokens) : tokens[b] = "{"})) :
                                Match(t, <<VAR, {"("}>>)}}

\* the names removed from the FuncList by the loop over all tokens
UsedNames(heads) ==
    UNION {InitializerNames(h) \cup BodyNames(FunctionBody(h)) : h \in heads}

HasFuncImpl(heads) ==
    \E h \in heads : FunctionBody(h) # NULL /\ fileIndex[FunctionBody(h)] = 0

\* "Final check; check if the function pointer is used somewhere..": the
\* diagnostics for the functions left in the list, in token order
RECURSIVE UnusedFunctions(_, _)
UnusedFunctions(tok1, list) ==
    IF list = {} THEN <<>>
    ELSE (CHOOSE it \in {
        (IF findmatch(1, <<{"return", "(", ")", ",", "="}, {tokens[t]}>>, NULL) = NULL
         THEN <<unusedPrivateFunctionError(t, str(next(tok1)), tokens[t])>> ELSE <<>>)
        \o UnusedFunctions(tok1, list \ {t})
        : t \in {First(list)}} : TRUE)

\* "Locate some class": the diagnostics for the class at tok1
PrivateClass(tok1) ==
    IF ~Match(tok1, <<{"class", "struct"}, VAR, {"{", ":"}>>) THEN <<>>
    ELSE IF fileIndex[tok1] # 0 THEN <<>>
    ELSE (CHOOSE it \in {
        IF ~HasFuncImpl(heads) THEN <<>>
        ELSE (CHOOSE it \in {
            UnusedFunctions(tok1, {t \in FuncList(tok1) : tokens[t] \notin used})
            : used \in {UsedNames(heads)}} : TRUE)
        : heads \in {FunctionHeads(str(next(tok1)))}} : TRUE)

\* the diagnostics for the classes declared in the tokens from..to
RECURSIVE privateFunctions(_, _)
privateFunctions(from, to) ==
    IF from > to THEN <<>>
    ELSE IF from = to THEN PrivateClass(from)
    ELSE privateFunctions(from, (from + to) \div 2)
         \o privateFunctions((from + to) \div 2 + 1, to)

\* The classes privateFunctions is run on: a class or struct A with a
\* private function f and public members, then functions outside the class
PrivateMembers ==
    {<<"void", "f", "(", ")", ";">>,
     <<"void", "f", "(", ")", "{", "}">>,
     <<"void", "f", "(", ")", ";", "void", "f", "(", "int", "b", ")", ";">>,
     <<"friend", "class", "B", ";", "void", "f", "(", ")", ";">>}

PublicMembers ==
    {<<>>,
     <<"void", "g", "(", ")", ";">>,
     <<"void", "g", "(", ")", "{", "}">>,
     <<"void", "g", "(", ")", "{", "f", "(", ")", ";", "}">>,
     <<"A", "(", ")", ":", "x", "(", "f", ")", "{", "}">>}

PrivateBodies ==
    {<<"private:">> \o private \o <<"public:">> \o public
        : private \in PrivateMembers, public \in PublicMembers}
    \cup {private \o <<"public:">> \o public
        : private \in PrivateMembers, public \in PublicMembers}

PrivateTrailers ==
    {<<>>,
     <<"void", "A", "::", "g", "(", ")", "{", "}">>,
     <<"void", "A", "::", "g", "(", ")", "{", "f", "(", ")", ";", "}">>,
     <<"void", "A", "::", "g", "(", ")", "{", "p", "=", "f", ";", "}">>,
     <<"void", "A", "::", "f", "(", ")", "{", "}">>}

\* the class is in the source file, or in a file that the source file includes
IncludedClass(body, trailer) ==
    {[t \in 1..(Len(body) + 5 + Len(trailer)) |-> 0],
     [t \in 1..(Len(body) + 5 + Len(trailer)) |-> IF t <= Len(body) + 5 THEN 1 ELSE 0]}

InitPrivate ==
    /\ \E head \in {"class", "struct"} : \E body \in PrivateBodies : \E trailer \in PrivateTrailers :
          /\ tokens = ClassOf(head, "A", body) \o trailer
          /\ fileIndex \in IncludedClass(body, trailer)
    /\ tokLink = Links(tokens)
    /\ checkCodingStyle \in BOOLEAN
    /\ inconclusive = FALSE /\ ifcfg = FALSE
    /\ hasSymbolDatabase = FALSE
    /\ spaceInfo = <<>>
    /\ spaceInfoMMap = <<>>
    /\ errors = <<>>
    /\ aborted = FALSE
    /\ declared = <<>>
    /\ lastOp = "none"
    /\ dbCalls = 0
    /\ heap = NoObjects
    /\ analysis = NoAnalysis
    /\ amParams = <<>> /\ amFirst = NULL /\ amSecond = NULL /\ amPath = <<>>
    /\ amDepth = 0 /\ amResult = "none"

\* CheckClass::privateFunctions
PrivateFunctions ==
    /\ ~aborted /\ lastOp # "destroyed"
    /\ lastOp' = "privateFunctions"
    /\ errors' = IF ~checkCodingStyle THEN <<>> ELSE privateFunctions(1, Len(tokens))
    /\ UNCHANGED <<analysis, heap, tokens, tokLink, fileIndex, checkCodingStyle, inconclusive, ifcfg, hasSymbolDatabase, spaceInfo,
                   spaceInfoMMap, aborted, declared, dbCalls, amParams, amFirst,
                   amSecond, amPath, amDepth, amResult>>

NextPrivate == PrivateFunctions

SpecPrivate == InitPrivate /\ [][NextPrivate]_vars

\* is the "{" at b the body of a member function of classname: of a function
\* defined in the class or struct, or of a "classname :: fn" outside it
MemberBody(classname, b) ==
    /\ tokens[b] = "{"
    /\ \E close \in {IF str(previous(b)) = "const" THEN tokAt(b, -2) ELSE previous(b)} :
          /\ str(close) = ")"
          /\ \E fn \in {previous(link(close))} :
                \/ InStructOrClass(classname, fn)
                \/ Match(tokAt(fn, -2), <<{classname}, {"::"}>>)

\* the declarations of private member functions in the class at tok1
PrivateDeclarations(tok1) ==
    {t \in tok1..PrivateClassEnd(tok1) :
        /\ AtClassLevel(tok1, t) /\ priv(tok1, t)
        /\ Match(t, <<VAR, {"("}>>)
        /\ tokens[t] # str(next(tok1))}

CalledInMemberBody(classname, funcname) ==
    \E b \in 1..Len(tokens) :
        /\ MemberBody(classname, b)
        /\ \E u \in b..link(b) : Match(u, <<{funcname}, {"("}>>)

\* every occurrence of the name is the head of a declaration in the class or
\* of a definition "classname :: funcname (": no call, no function pointer
NeverReferenced(classname, funcname) ==
    \A u \in 1..Len(tokens) :
        tokens[u] = funcname =>
            /\ str(next(u)) = "("
            /\ \/ InStructOrClass(classname, u)
               \/ Match(tokAt(u, -2), <<{classname}, {"::"}>>)
            /\ ~\E b \in 1..u : tokens[b] = "{" /\ u < link(b) /\ IndentLevel(1, b) > 0

Reports(classname, funcname) ==
    {e \in 1..Len(errors) : errors[e].names = <<classname, funcname>>}

\* C24: privateFunctions never reports a private member function whose name
\* occurs as "name (" in the body of a member function of the same class or
\* struct, inline or out of line; a private function that is never called
\* and never referenced is reported exactly once when the class has a member
\* function body in the file of index 0.
C24_UnusedPrivate ==
    lastOp = "privateFunctions" =>
        \A tok1 \in 1..Len(tokens) :
            Match(tok1, <<{"class", "struct"}, VAR, {"{", ":"}>>) =>
                \A t \in PrivateDeclarations(tok1) :
                    /\ CalledInMemberBody(str(next(tok1)), tokens[t]) =>
                          Reports(str(next(tok1)), tokens[t]) = {}
                    /\ /\ checkCodingStyle
                       /\ NeverReferenced(str(next(tok1)), tokens[t])
                       /\ \E b \in 1..Len(tokens) :
                             MemberBody(str(next(tok1)), b) /\ fileIndex[b] = 0
                       => Cardinality(Reports(str(next(tok1)), tokens[t])) = 1

\* an unused private function of a class has been reported
C24_Witness ==
    /\ lastOp = "privateFunctions"
    /\ tokens[1] = "class"
    /\ Reports("A", "f") # {}

-----------------------------------------------------------------------------
(* The objects of a run: the checks that build the database, then the       *)
(* destructor, on a class A whose function f uses members of its bases.     *)

LifetimeHeaders ==
    {<<"class", "A">>,
     <<"class", "B", "{", "int", "y", ";", "int", "z", ";", "}", ";",
       "class", "A", ":", "public", "B">>,
     <<"class", "C", "{", "int", "y", ";", "}", ";",
       "class", "B", ":", "public", "C", "{", "int", "z", ";", "}", ";",
       "class", "A", ":", "public", "B">>}

LifetimeStatements ==
    {<<"x", "=", "b", ";">>, <<"y", "=", "b", ";">>, <<"z", "<<", "b", ";">>,
     <<"w", "<<", "b", ";">>, <<"b", "=", "0", ";">>}

LifetimePrograms ==
    {header \o <<"{", "int", "x", ";", "public:", "void", "f", "(", "int", "b", ")", "{">>
        \o Concat(body) \o <<"}", "}", ";">> :
        header \in LifetimeHeaders,
        body \in SeqsUpTo(LifetimeStatements, MaxMembers) \ {<<>>}}

InitLifetime ==
    /\ tokens \in LifetimePrograms
    /\ tokLink = Links(tokens)
    /\ fileIndex = SourceFile(tokens)
    /\ checkCodingStyle \in BOOLEAN
    /\ inconclusive = FALSE /\ ifcfg = FALSE
    /\ hasSymbolDatabase = FALSE
    /\ spaceInfo = <<>>
    /\ spaceInfoMMap = <<>>
    /\ errors = <<>>
    /\ aborted = FALSE
    /\ declared = <<>>
    /\ lastOp = "none"
    /\ dbCalls = 0
    /\ heap = NoObjects
    /\ analysis = NoAnalysis
    /\ amParams = <<>> /\ amFirst = NULL /\ amSecond = NULL /\ amPath = <<>>
    /\ amDepth = 0 /\ amResult = "none"

NextLifetime == Constructors \/ OperatorEq \/ OperatorEqRetRefThis \/ CheckConst \/ Destroy

SpecLifetime == InitLifetime /\ [][NextLifetime]_vars

\* C25: when the CheckClass instance is destroyed, every SpaceInfo and every
\* Var record made during the run has been released exactly once: nothing
\* remains on the heap and nothing was released twice.
C25_AllReleased == lastOp = "destroyed" => heap = NoObjects

\* the instance was destroyed after it had built a database with variables
C25_Witness ==
    /\ lastOp = "destroyed" /\ hasSymbolDatabase
    /\ \E i \in 1..Len(spaceInfo) : spaceInfo[i].varlist # <<>>
    /\ heap = NoObjects
    /\ analysis = NoAnalysis

-----------------------------------------------------------------------------
(* CheckClass::thisSubtraction, and the runs in which the checks of one     *)
(* CheckClass instance are invoked one after the other.                     *)

thisSubtractionError(tok) == Diagnostic(tok, "style", "thisSubtraction", <<>>)

\* the diagnostics for the tokens from..to
RECURSIVE thisSubtraction(_, _)
thisSubtraction(from, to) ==
    IF from > to THEN <<>>
    ELSE IF from = to
        THEN (IF Match(from, <<{"this"}, {"-"}, VAR>>) /\ ~simpleMatch(previous(from), <<"*">>)
              THEN <<thisSubtractionError(from)>> ELSE <<>>)
    ELSE thisSubtraction(from, (from + to) \div 2) \o thisSubtraction((from + to) \div 2 + 1, to)

\* CheckClass::thisSubtraction
ThisSubtraction ==
    /\ ~aborted /\ lastOp # "destroyed"
    /\ lastOp' = "thisSubtraction"
    /\ errors' = IF ~checkCodingStyle THEN <<>> ELSE thisSubtraction(1, Len(tokens))
    /\ UNCHANGED <<analysis, heap, tokens, tokLink, fileIndex, checkCodingStyle, inconclusive, ifcfg, hasSymbolDatabase, spaceInfo,
                   spaceInfoMMap, aborted, declared, dbCalls, amParams, amFirst,
                   amSecond, amPath, amDepth, amResult>>

RunMembers ==
    {<<"int", "x", ";">>,
     <<"int", "x", ";", "private:", "void", "f", "(", ")", ";">>}

RunFunctions ==
    {<<>>,
     <<"public:", "A", "&", "operator", "=", "(", "const", "A", "&", "a", ")",
       "{", "return", "*", "this", ";", "}">>,
     <<"public:", "A", "(", ")", "{", "x", "=", "0", ";", "}",
       "int", "g", "(", ")", "{", "return", "this", "-", "x", ";", "}">>}

RunTrailers ==
    {<<>>,
     <<"void", "h", "(", ")", "{",
       "memset", "(", "&", "a", ",", "0", ",", "sizeof", "(", "A", ")", ")", ";", "}">>,
     <<"class", "B", ":", "public", "A", "{", "public:", "~", "B", "(", ")",
       "{", "x", "=", "0", ";", "}", "}", ";">>}

RunPrograms ==
    {ClassOf(head, "A", members \o functions) \o trailer :
        head \in {"class", "struct"}, members \in RunMembers,
        functions \in RunFunctions, trailer \in RunTrailers}

InitRun ==
    /\ tokens \in RunPrograms
    /\ tokLink = Links(tokens)
    /\ fileIndex = SourceFile(tokens)
    /\ checkCodingStyle \in BOOLEAN
    /\ inconclusive \in BOOLEAN /\ ifcfg \in BOOLEAN
    /\ hasSymbolDatabase = FALSE
    /\ spaceInfo = <<>>
    /\ spaceInfoMMap = <<>>
    /\ errors = <<>>
    /\ aborted = FALSE
    /\ declared = <<>>
    /\ lastOp = "none"
    /\ dbCalls = 0
    /\ heap = NoObjects
    /\ analysis = NoAnalysis
    /\ amParams = <<>> /\ amFirst = NULL /\ amSecond = NULL /\ amPath = <<>>
    /\ amDepth = 0 /\ amResult = "none"

\* the checks of runChecks and of runSimplifiedChecks, in any order
NextRun ==
    \/ NoMemset
    \/ Constructors \/ OperatorEq \/ PrivateFunctions \/ OperatorEqRetRefThis
    \/ ThisSubtraction \/ OperatorEqToSelf \/ VirtualDestructor \/ CheckConst

SpecRun == InitRun /\ [][NextRun]_vars

\* the checks that call createSymbolDatabase, and their settings gates
BuildingChecks == {"constructors", "operatorEq", "operatorEqRetRefThis", "checkConst"}

PastGate(check) == checkCodingStyle /\ (check = "checkConst" => ~ifcfg)

\* C26: the symbol database is built at most once, and only by the first of
\* constructors, operatorEq, operatorEqRetRefThis and checkConst that gets
\* past its settings gate; noMemset, privateFunctions, operatorEqToSelf,
\* virtualDestructor and thisSubtraction never build it; without
\* _checkCodingStyle spaceInfoMMap stays empty and hasSymbolDatabase false.
C26_BuiltOnce ==
    /\ [](~checkCodingStyle => ~hasSymbolDatabase /\ spaceInfoMMap = <<>>)
    /\ [](~hasSymbolDatabase => spaceInfoMMap = <<>> /\ heap = NoObjects)
    /\ [][/\ hasSymbolDatabase =>
                /\ hasSymbolDatabase'
                /\ spaceInfoMMap' = spaceInfoMMap
                /\ Len(spaceInfo') = Len(spaceInfo)
                /\ heap'.SpaceInfo = heap.SpaceInfo
          /\ lastOp' \in BuildingChecks /\ PastGate(lastOp') => hasSymbolDatabase'
          /\ ~(lastOp' \in BuildingChecks /\ PastGate(lastOp')) =>
                UNCHANGED <<hasSymbolDatabase, spaceInfo, spaceInfoMMap>>]_vars

\* a second check that builds the database has been invoked, after checks
\* that do not, on an instance that holds a database
C26_Witness ==
    /\ dbCalls = 2 /\ hasSymbolDatabase /\ ~aborted
    /\ spaceInfoMMap # <<>>
    /\ lastOp \in {"noMemset", "privateFunctions", "operatorEqToSelf", "virtualDestructor",
                   "thisSubtraction"}

-----------------------------------------------------------------------------
(* CheckClass::initializeVarList on the constructor of a class A whose      *)
(* member functions call one another.                                       *)

CallStatements ==
    {<<>>,
     <<"x", "=", "0", ";">>,
     <<"y", "=", "0", ";">>,
     <<"f", "(", ")", ";">>,
     <<"g", "(", ")", ";">>,
     <<"*", "this", "=", "a", ";">>,
     <<"memset", "(", "this", ",", "0", ",", "0", ")", ";">>,
     <<"h", "(", "this", ")", ";">>}

CallPrograms ==
    {ClassOf(head, "A",
        <<"int", "x", ";", "int", "y", ";", "public:", "A", "(", ")", "{">> \o ctor
        \o <<"}", "void", "f", "(", ")", "{">> \o f
        \o <<"}", "void", "g", "(", ")", "{">> \o g \o <<"}">>) :
        head \in {"class", "struct"},
        ctor \in CallStatements, f \in CallStatements, g \in CallStatements}

InitCalls ==
    /\ tokens \in CallPrograms
    /\ tokLink = Links(tokens)
    /\ fileIndex = SourceFile(tokens)
    /\ checkCodingStyle = TRUE
    /\ inconclusive = FALSE /\ ifcfg = FALSE
    /\ hasSymbolDatabase = FALSE
    /\ spaceInfo = <<>>
    /\ spaceInfoMMap = <<>>
    /\ errors = <<>>
    /\ aborted = FALSE
    /\ declared = <<>>
    /\ lastOp = "none"
    /\ dbCalls = 0
    /\ heap = NoObjects
    /\ analysis = NoAnalysis
    /\ amParams = <<>> /\ amFirst = NULL /\ amSecond = NULL /\ amPath = <<>>
    /\ amDepth = 0 /\ amResult = "none"

\* "std::list<std::string> callstack; initializeVarList(info->classDef,
\* it->token, info->varlist, callstack)" for the public constructor of the
\* class, with all flags cleared, and the check of the flags after it
InitializeVarList ==
    /\ lastOp = "none"
    /\ lastOp' = "initializeVarList"
    /\ \E done \in {initializeVarListCalls(1,
                        First({t \in 1..Len(tokens) : Match(t, <<{"A"}, {"("}>>)}),
                        getVarList(1), [callstack |-> <<>>, log |-> {}])} :
          /\ analysis' = [varlist |-> done[1], callstack |-> done[2].callstack,
                          log |-> done[2].log]
          \* "Check if any variables are uninitialized"
          /\ errors' = VarlistDiagnostics([className |-> "A"],
                            [type |-> Constructor, access |-> Public,
                             token |-> First({t \in 1..Len(tokens) : Match(t, <<{"A"}, {"("}>>)})],
                            done[1], 1)
    /\ UNCHANGED <<heap, tokens, tokLink, fileIndex, checkCodingStyle, inconclusive, ifcfg,
                   hasSymbolDatabase, spaceInfo, spaceInfoMMap, aborted, declared,
                   dbCalls, amParams, amFirst, amSecond, amPath, amDepth, amResult>>

NextCalls == InitializeVarList

SpecCalls == InitCalls /\ [][NextCalls]_vars

\* the names that are called in the tokens
CalledNames == {tokens[t] : t \in {t \in 1..Len(tokens) : Match(t, <<VAR, {"("}>>)}}

\* C27: initializeVarList returns for every pattern of calls among the
\* member functions; the callstack never holds a name twice, is never deeper
\* than the number of the names that are called, and is on return from every
\* call what it was on entry.
C27_Callstack ==
    lastOp = "initializeVarList" =>
        /\ analysis.callstack = <<>>
        /\ analysis.log # {}
        /\ \A call \in analysis.log :
              /\ call[2] = call[1]
              /\ \A i \in 1..Len(call[1]) : \A j \in 1..Len(call[1]) :
                    call[1][i] = call[1][j] => i = j
              /\ Len(call[1]) <= Cardinality(CalledNames)

\* the functions call each other: initializeVarList was entered with two
\* names on the callstack and has returned
C27_Witness ==
    /\ lastOp = "initializeVarList"
    /\ \E call \in analysis.log : Len(call[1]) = 2
    /\ \E t \in 1..Len(tokens) : Match(t, <<{"g"}, {"("}, {")"}, {"{"}, {"f"}, {"("}>>)
    /\ \E t \in 1..Len(tokens) : Match(t, <<{"f"}, {"("}, {")"}, {"{"}, {"g"}, {"("}>>)

-----------------------------------------------------------------------------
(* CheckClass::argsMatch on a declaration and a definition whose parameter  *)
(* lists are written independently of each other.                           *)

TypedParameters(names) ==
    {type \o name : type \in {<<"T">>, <<"T", "*">>, <<"T", "&">>, <<"int">>}, name \in names}

\* the tokens of a parameter list between "(" and ")"
RECURSIVE Separated(_)
Separated(params) ==
    IF params = <<>> THEN <<>>
    ELSE Head(params) \o (IF Tail(params) = <<>> THEN <<>> ELSE <<",">>)
         \o Separated(Tail(params))

\* the declaration "void f ( ... ) ;" and the definition "void f ( ... ) { }"
InitTypes ==
    /\ \E declaration \in SeqsUpTo(TypedParameters({<<>>, <<"a">>}), MaxParams) :
       \E definition \in SeqsUpTo(TypedParameters({<<>>, <<"b">>}), MaxParams) :
          /\ tokens = <<"void", "f", "(">> \o Separated(declaration)
                       \o <<")", ";", "void", "f", "(">> \o Separated(definition)
                       \o <<")", "{", "}">>
          /\ amSecond = Len(Separated(declaration)) + 9
    /\ amFirst = 4
    /\ amPath = <<>> /\ amDepth = 0 /\ amParams = <<>>
    /\ tokLink = Links(tokens)
    /\ fileIndex = SourceFile(tokens)
    /\ amResult = "none"
    /\ lastOp = "none"
    /\ checkCodingStyle = TRUE
    /\ inconclusive = FALSE /\ ifcfg = FALSE
    /\ hasSymbolDatabase = FALSE
    /\ spaceInfo = <<>>
    /\ spaceInfoMMap = <<>>
    /\ errors = <<>>
    /\ aborted = FALSE
    /\ declared = <<>>
    /\ dbCalls = 0
    /\ heap = NoObjects
    /\ analysis = NoAnalysis

NextTypes == ArgsMatch

SpecTypes == InitTypes /\ [][NextTypes]_vars

\* the tokens of the argument list that starts at first, without the names
\* of the parameters
RECURSIVE TypesOnly(_)
TypesOnly(first) ==
    IF tokens[first] = ")" THEN <<>>
    ELSE (IF tokens[first] \in {"a", "b"} THEN <<>> ELSE <<tokens[first]>>)
         \o TypesOnly(first + 1)

\* C28: argsMatch returns false whenever the two argument lists differ in
\* something other than the names of the parameters, default values or a
\* class path: for lists with different numbers of parameters and for lists
\* whose corresponding parameter types differ, as "( T )" and "( T * )".
C28_TypesDiffer ==
    lastOp = "argsMatch" /\ TypesOnly(amFirst) # TypesOnly(amSecond) => amResult = FALSE

\* argsMatch has returned false for two lists of as many parameters of
\* which one has another type
C28_Witness ==
    /\ lastOp = "argsMatch" /\ amResult = FALSE
    /\ Len(TypesOnly(amFirst)) = Len(TypesOnly(amSecond))
    /\ TypesOnly(amFirst) # TypesOnly(amSecond)

\* the tokens at which a statement of the body of the function name starts
StatementStarts(name) ==
    (CHOOSE it \in {
        {t \in (b + 1)..(link(b) - 1) : tokens[t - 1] \in {"{", "}", ";"}}
        : b \in {First({t \in 4..Len(tokens) :
                          Match(t - 3, <<{name}, {"("}, {")"}, {"{"}>>)})}} : TRUE)

\* a statement of the function is "* this =", "memset ( this ," or a call
\* with the argument this
BailsOut(name) ==
    \E t \in StatementStarts(name) :
        \/ Match(t, <<{"*"}, {"this"}, {"="}>>)
        \/ Match(t, <<{"memset"}, {"("}, {"this"}, {","}>>)
        \/ Match(t, <<VAR, {"("}>>) /\ \E u \in (t + 2)..link(t + 1) : tokens[u] = "this"

\* the member functions that a statement of the function calls
Callees(name) ==
    {tokens[t] : t \in {t \in StatementStarts(name) :
                           Match(t, <<VAR, {"("}>>) /\ tokens[t] \in {"f", "g"}}}

\* the member functions that the analysis of the constructor comes to
Reached == Callees("A") \cup UNION {Callees(n) : n \in Callees("A")}

\* a function that is reached calls itself, directly or through another
Recursion ==
    \E n \in Reached : n \in Callees(n) \/ \E m \in Callees(n) : n \in Callees(m)

\* C29: during a run of initializeVarList an init flag only changes from
\* false to true; if the body, or the body of a member function reached from
\* it, has "* this =", "memset ( this ,", a call with the argument this or a
\* call of a name on the callstack, every Var has init = true when the run
\* returns and no uninitVar or operatorEqVarError is emitted for the method.
C29_BailOut ==
    lastOp = "initializeVarList" =>
        /\ \A call \in analysis.log :
              /\ Len(call[4]) = Len(call[3])
              /\ \A k \in 1..Len(call[3]) : call[3][k].init => call[4][k].init
        /\ (BailsOut("A") \/ (\E n \in Reached : BailsOut(n)) \/ Recursion) =>
              /\ \A k \in 1..Len(analysis.varlist) : analysis.varlist[k].init
              /\ errors = <<>>

\* a function that the constructor calls bails out, and so does none of the
\* others; the analysis of the constructor has returned
C29_Witness ==
    /\ lastOp = "initializeVarList"
    /\ ~BailsOut("A") /\ ~Recursion
    /\ \E n \in Reached : BailsOut(n) /\ \E call \in analysis.log : call[1] = <<n>>
    /\ \A k \in 1..Len(analysis.varlist) : analysis.varlist[k].init

-----------------------------------------------------------------------------
(* CheckClass::constructors on a namespace that declares variables.         *)

NamespacePrograms ==
    {ClassOf("namespace", "N", Concat(body)) \o trailer :
        body \in SeqsUpTo(VariableMembers, MaxMembers),
        trailer \in {<<>>, ClassOf("class", "A", ReportedClass("A"))}}

InitNamespace ==
    /\ tokens \in NamespacePrograms
    /\ tokLink = Links(tokens)
    /\ fileIndex = SourceFile(tokens)
    /\ checkCodingStyle \in BOOLEAN
    /\ inconclusive = FALSE /\ ifcfg = FALSE
    /\ hasSymbolDatabase = FALSE
    /\ spaceInfo = <<>>
    /\ spaceInfoMMap = <<>>
    /\ errors = <<>>
    /\ aborted = FALSE
    /\ declared = <<>>
    /\ lastOp = "none"
    /\ dbCalls = 0
    /\ heap = NoObjects
    /\ analysis = NoAnalysis
    /\ amParams = <<>> /\ amFirst = NULL /\ amSecond = NULL /\ amPath = <<>>
    /\ amDepth = 0 /\ amResult = "none"

NextNamespace == Constructors

SpecNamespace == InitNamespace /\ [][NextNamespace]_vars

\* C30: constructors() emits noConstructor, uninitVar and operatorEqVarError
\* for classes and structs only: no diagnostic is emitted for a SpaceInfo
\* with isNamespace = true, whatever variables the namespace declares.
C30_NoNamespace ==
    lastOp = "constructors" /\ ~aborted =>
        \A i \in 1..Len(spaceInfo) :
            spaceInfo[i].isNamespace =>
                \A e \in 1..Len(errors) :
                    /\ errors[e].tok # spaceInfo[i].classDef
                    /\ \A j \in 1..Len(spaceInfo[i].functionList) :
                          errors[e].tok # spaceInfo[i].functionList[j].token

\* constructors() has run on a namespace that declares a variable and on a
\* class, and has reported the class
C30_Witness ==
    /\ lastOp = "constructors" /\ ~aborted /\ checkCodingStyle
    /\ \E i \in 1..Len(spaceInfo) : spaceInfo[i].isNamespace /\ spaceInfo[i].varlist # <<>>
    /\ errors # <<>>

====
